---- MODULE Spec2Model ----
(***************************************************************************)
(* A model of the MiniMap component (minimap.js and its jquery-ports       *)
(* helper): configuration validation, the show/hide/toggle surface, the    *)
(* layout pass, the scroll mirroring pass, the mouse handlers and the      *)
(* time-sliced animated scroll.                                            *)
(*                                                                         *)
(* Numbers are exact rationals <<n, d>> (d > 0, lowest terms); JavaScript  *)
(* values carry their type tag; a style value is a tagged tuple.           *)
(***************************************************************************)
EXTENDS Integers, Sequences, FiniteSets, TLC

VARIABLES
    phase,          \* "new" before the constructor call, "live", or "failed"
    settings,       \* this.settings
    shown,          \* this.shown
    mousedown,      \* this.mousedown
    onSmoothScroll, \* this.onSmoothScroll
    winFlag,        \* window.onSmoothScroll (the timer callback's `this`)
    miniStyle,      \* this.miniElement.style
    regionStyle,    \* this.region.style
    baseClass,      \* class names of the source element
    regionClass,    \* class names of the region element
    body,           \* children of document.body, in order
    listeners,      \* registered listeners: <<target, type, handler>>
    win,            \* the window: viewport size and scroll offset
    base,           \* the source element's geometry (fixed after construction)
    timers,         \* active setInterval timers started by scrollTop
    lastOp,         \* the handler that ran last, and what it observed
    cbLog,          \* onPreviewChange invocations of the last handler
    scrollLog,      \* window.scrollTo arguments of the last handler
    lastTouchType,  \* this.lastTouchType
    prevTouch,      \* the touch event delivered last ("" before the first one)
    dispLog,        \* synthetic mouse events dispatched by the last handler
    dom             \* the element trees under document.body, in order

vars == <<phase, settings, shown, mousedown, onSmoothScroll, winFlag,
          miniStyle, regionStyle, baseClass, regionClass, body, listeners,
          win, base, timers, lastOp, cbLog, scrollLog,
          lastTouchType, prevTouch, dispLog, dom>>

----------------------------------------------------------------------------
(* Exact arithmetic.                                                       *)

Abs(i) == IF i < 0 THEN -i ELSE i

RECURSIVE Gcd(_, _)
Gcd(a, b) == IF b = 0 THEN a ELSE Gcd(b, a % b)

\* The rational n/d in lowest terms with a positive denominator.
Rat(n, d) ==
    LET s == IF d < 0 THEN -1 ELSE 1
        g == Gcd(Abs(n), Abs(d))
    IN  <<(s * n) \div g, (s * d) \div g>>

Whole(i) == <<i, 1>>
Zero == Whole(0)
RAdd(a, b) == Rat(a[1] * b[2] + b[1] * a[2], a[2] * b[2])
RSub(a, b) == Rat(a[1] * b[2] - b[1] * a[2], a[2] * b[2])
RMul(a, b) == Rat(a[1] * b[1], a[2] * b[2])
RDiv(a, b) == Rat(a[1] * b[2], a[2] * b[1])
RNeg(a) == <<-a[1], a[2]>>
RLt(a, b) == a[1] * b[2] < b[1] * a[2]
RLe(a, b) == a[1] * b[2] <= b[1] * a[2]
RAbs(a) == <<Abs(a[1]), a[2]>>
RMax(a, b) == IF RLt(a, b) THEN b ELSE a
RMin(a, b) == IF RLt(b, a) THEN b ELSE a
RIsInt(a) == a[2] = 1
\* Math.floor
RFloor(a) == a[1] \div a[2]
\* Truncation toward zero.
RTrunc(a) == IF a[1] >= 0 THEN a[1] \div a[2] ELSE -((-a[1]) \div a[2])
\* The integer the layout engine reports for a fractional pixel length.
RRound(a) == RFloor(RAdd(a, <<1, 2>>))

----------------------------------------------------------------------------
(* JavaScript values: [t |-> type tag, v |-> payload].                     *)

Num(r) == [t |-> "num", v |-> r]
Str(s) == [t |-> "str", v |-> s]
Bool(b) == [t |-> "bool", v |-> b]
Fn(name) == [t |-> "fn", v |-> name]
Undefined == [t |-> "undef", v |-> "undefined"]

\* The strings of the model that read as numbers, with the number each denotes.
NumericStrings == [s \in {"0.5", "5"} |-> IF s = "0.5" THEN <<1, 2>> ELSE Whole(5)]

\* String.prototype.toLowerCase on the strings of the model.
MixedCase == [s \in {"Right", "LEFT", "Left", "RIGHT"} |->
                IF s \in {"Right", "RIGHT"} THEN "right" ELSE "left"]
toLowerCase(s) == IF s \in DOMAIN MixedCase THEN MixedCase[s] ELSE s

\* jquery-ports isNumeric: !isNaN(parseFloat(n)) && isFinite(n)
isNumeric(x) ==
    \/ x.t \in {"num", "big"}
    \/ x.t = "str" /\ x.v \in DOMAIN NumericStrings

\* jquery-ports isFunction
isFunction(x) == x.t = "fn"

\* ToNumber, for the values that pass isNumeric.
ToNumber(x) ==
    CASE x.t = "num" -> x.v
      [] x.t = "str" /\ x.v \in DOMAIN NumericStrings -> NumericStrings[x.v]
      [] x.t = "bool" -> IF x.v THEN Whole(1) ELSE Zero
      [] OTHER -> Zero

\* ToBoolean
Truthy(x) ==
    CASE x.t = "bool" -> x.v
      [] x.t = "num" -> x.v # Zero
      [] x.t = "str" -> x.v # ""
      [] x.t = "fn" -> TRUE
      [] OTHER -> FALSE

\* ToInt32 of a number strictly between -2^31 and 2^31: the truncation toward
\* zero.
ToInt32(r) == RTrunc(r)

\* An integer of 2^31 or more, hi * 2^16 + lo with hi >= 2^15 and
\* 0 <= lo < 2^16 (TLC's own integers end at 2^31 - 1).
Big(hi, lo) == [t |-> "big", v |-> <<hi, lo>>]

\* ToInt32 of hi * 2^16 + lo: the low 32 bits read as a signed integer.
ToInt32Big(hi, lo) ==
    LET h == hi % 65536
    IN  (IF h >= 32768 THEN h - 65536 ELSE h) * 65536 + lo

\* (value | 0) !== value
NotInt32(x) ==
    CASE x.t = "num" -> ~(RIsInt(x.v) /\ ToInt32(x.v) = x.v[1])
      [] x.t = "big" -> ~(/\ x.v[1] < 32768
                          /\ ToInt32Big(x.v[1], x.v[2]) = x.v[1] * 65536 + x.v[2])
      [] OTHER -> TRUE

----------------------------------------------------------------------------
(* propValidators: TRUE when the validator of `key` throws on `x`.         *)

validPositions == {"right", "left"}
redrawAttributes == {"heightRatio", "widthRatio", "offsetHeightRatio", "offsetWidthRatio"}

NotBoolean(x) == x.t # "bool"
\* A range test that rejects the upper bound itself.
OutOfRangeOpenHi(x, lo, loOpen, hi) ==
    \/ ~isNumeric(x)
    \/ IF loOpen THEN RLe(ToNumber(x), lo) ELSE RLt(ToNumber(x), lo)
    \/ RLe(hi, ToNumber(x))

OutOfRange(x, lo, loOpen, hi) ==
    \/ ~isNumeric(x)
    \/ IF loOpen THEN RLe(ToNumber(x), lo) ELSE RLt(ToNumber(x), lo)
    \/ RLt(hi, ToNumber(x))

\* The keys of `defaults`, in the order the object literal lists them.
KnownKeys == <<"allowClick", "fadeHover", "hoverOpacity", "hoverFadeSpeed",
               "heightRatio", "widthRatio", "offsetHeightRatio", "offsetWidthRatio",
               "position", "touch", "smoothScroll", "smoothScrollDelay",
               "onPreviewChange", "disableFind">>

IsKnownKey(key) == \E i \in 1..Len(KnownKeys) : KnownKeys[i] = key

propValidators(key, x) ==
    CASE key \in {"allowClick", "fadeHover", "disableFind"} -> NotBoolean(x)
      [] key = "hoverOpacity" -> OutOfRange(x, Zero, FALSE, Whole(1))
      [] key = "hoverFadeSpeed" -> ~isNumeric(x) \/ RLt(ToNumber(x), Zero)
      [] key = "heightRatio" -> OutOfRange(x, Zero, TRUE, Whole(1))
      [] key = "widthRatio" -> OutOfRange(x, Zero, TRUE, <<1, 2>>)
      [] key \in {"offsetHeightRatio", "offsetWidthRatio"} ->
             OutOfRange(x, Zero, FALSE, <<9, 10>>)
      [] key = "position" -> ~(x.t = "str" /\ x.v \in validPositions)
      [] key = "smoothScrollDelay" ->
             NotInt32(x) \/ (x.t = "num" /\ RLt(x.v, Whole(4)))
      [] key \in {"touch", "smoothScroll"} -> FALSE
      [] key = "onPreviewChange" -> ~(Truthy(x) /\ isFunction(x))
      [] OTHER -> TRUE

\* What a thrown error says: the word after "Invalid " and the value appended.
NoError == [thrown |-> FALSE, label |-> "", value |-> Undefined]
ErrorOf(label, x) == [thrown |-> TRUE, label |-> label, value |-> x]
MessageLabel(key) ==
    CASE ~IsKnownKey(key) -> "validation property"
      [] key = "smoothScrollDelay" -> "smoothScrollDelay(in ms)"
      [] OTHER -> key

\* One validator call, as the setters make it.
validate(key, x) ==
    IF propValidators(key, x) THEN ErrorOf(MessageLabel(key), x) ELSE NoError

----------------------------------------------------------------------------
(* Configuration.                                                          *)

defaults ==
    [allowClick |-> Bool(TRUE), fadeHover |-> Bool(FALSE),
     hoverOpacity |-> Num(<<2, 5>>), hoverFadeSpeed |-> Num(<<1, 2>>),
     heightRatio |-> Num(<<3, 5>>), widthRatio |-> Num(<<1, 20>>),
     offsetHeightRatio |-> Num(<<7, 200>>), offsetWidthRatio |-> Num(<<7, 200>>),
     position |-> Str("right"), touch |-> Bool(TRUE), smoothScroll |-> Bool(TRUE),
     smoothScrollDelay |-> Num(Whole(200)), onPreviewChange |-> Fn("noop"),
     disableFind |-> Bool(FALSE)]

\* Keys that are no configuration field, in the order an options object of the
\* model lists them.
UnknownKeys == <<"color">>

\* Object.assign({}, defaults, options)
Merge(options) ==
    [k \in DOMAIN defaults \cup DOMAIN options |->
        IF k \in DOMAIN options THEN options[k] ELSE defaults[k]]

\* Object.keys(props): the defaults' keys first, then the keys options added.
KeysOf(props) ==
    KnownKeys \o SelectSeq(UnknownKeys, LAMBDA k : k \in DOMAIN props)

\* _validateProps: the error of the first key whose validator throws.
validateProps(props) ==
    LET keys == KeysOf(props)
        bad == {i \in 1..Len(keys) : propValidators(keys[i], props[keys[i]])}
    IN  IF bad = {} THEN NoError
        ELSE LET i == CHOOSE j \in bad : \A k \in bad : j <= k
             IN  ErrorOf(MessageLabel(keys[i]), props[keys[i]])

\* settings.position = settings.position.toLowerCase(): a TypeError unless
\* position is a string.
LowerPosition(props) ==
    [props EXCEPT !["position"] = Str(toLowerCase(props["position"].v))]

NoSettings == [k \in {} |-> Undefined]

----------------------------------------------------------------------------
(* Style values and the jquery-ports DOM helpers.                          *)

Unset == <<"">>
Kw(s) == <<"kw", s>>
Px(r) == <<"px", r>>
ScaleCss(x, y) == <<"scale", x, y>>

StyleKeys == {"display", "top", "left", "right", "width", "height", "transform",
              "margin", "padding", "cursor", "transition"}
NoStyle == [k \in StyleKeys |-> Unset]

\* cssObjAssign(element, properties)
cssObjAssign(style, properties) ==
    [k \in DOMAIN style |-> IF k \in DOMAIN properties THEN properties[k] ELSE style[k]]

\* showElement: elem.style.display = null
showElement(style) == [style EXCEPT !["display"] = Unset]
\* hideElement: elem.style.display = 'none'
hideElement(style) == [style EXCEPT !["display"] = Kw("none")]
\* toggleElement
toggleElement(style) ==
    IF style["display"] = Kw("none") THEN showElement(style) ELSE hideElement(style)

Hidden(style) == style["display"] = Kw("none")
PxOf(value) == IF value[1] = "px" THEN value[2] ELSE Zero

\* width(element): getBoundingClientRect().width of the preview element, the
\* transformed box; an element that is not rendered measures 0.
widthOfMini(style) ==
    IF Hidden(style) THEN Zero
    ELSE IF style["transform"][1] = "scale"
         THEN RMul(PxOf(style["width"]), style["transform"][2])
         ELSE PxOf(style["width"])

\* outerHeight(region): margin, border and padding are 0 on the region (the
\* layout pass zeroes the margin); clientHeight is the rounded height and is 0
\* for an element that is not rendered.
outerHeightOfRegion(style) ==
    IF Hidden(style) THEN Zero ELSE Whole(RRound(PxOf(style["height"])))

\* addClass / removeClass on a class list
addClass(classes, name) == classes \cup {name}
removeClass(classes, name) == classes \ {name}

----------------------------------------------------------------------------
(* The instance, its document and its window as one record `m`, so that    *)
(* handlers compose the way the methods call each other.  err, stopped,    *)
(* cbLog and scrollLog describe the handler that is running.               *)

Cur ==
    [settings |-> settings, shown |-> shown, mousedown |-> mousedown,
     onSmoothScroll |-> onSmoothScroll, winFlag |-> winFlag,
     mini |-> miniStyle, region |-> regionStyle,
     baseClass |-> baseClass, regionClass |-> regionClass,
     body |-> body, listeners |-> listeners, win |-> win, timers |-> timers,
     err |-> NoError, stopped |-> FALSE, cbLog |-> <<>>, scrollLog |-> <<>>,
     lastTouchType |-> lastTouchType, prevTouch |-> prevTouch, dispLog |-> <<>>]

\* window.scrollTo(x, y): the browser keeps the offset inside the document.
MaxScrollY(m) == IF base.docH > m.win.h THEN base.docH - m.win.h ELSE 0
scrollTo(y, m) ==
    [m EXCEPT !.win.scrollY = RMax(Zero, RMin(y, Whole(MaxScrollY(m)))),
              !.scrollLog = Append(@, y)]

\* _scale
scale(m) ==
    [x |-> RMul(RDiv(Whole(m.win.w), Whole(base.w)), ToNumber(m.settings["widthRatio"])),
     y |-> RMul(RDiv(Whole(m.win.h), Whole(base.h)), ToNumber(m.settings["heightRatio"]))]

Two == Whole(2)
One == Whole(1)

\* The handler _genOnResizeHandler returns: the layout pass.
onResizeHandler(m) ==
    IF ~m.shown THEN m
    ELSE
    LET st == m.settings
        sc == scale(m)
        offsetTop == RMul(Whole(m.win.h), ToNumber(st["offsetHeightRatio"]))
        offsetLeftRight == RMul(Whole(m.win.w), ToNumber(st["offsetWidthRatio"]))
        top == RAdd(RDiv(RMul(Whole(base.h), RSub(sc.y, One)), Two), offsetTop)
        leftRight == RAdd(RDiv(RMul(Whole(base.w), RSub(sc.x, One)), Two), offsetLeftRight)
        thisWidth == RMul(RMul(Whole(m.win.w), RDiv(One, sc.x)), ToNumber(st["widthRatio"]))
        thisHeight == RMul(RMul(Whole(m.win.h), RDiv(One, sc.y)), ToNumber(st["heightRatio"]))
        miniElementCss ==
            (st["position"].v :> Px(leftRight)) @@
            [transform |-> ScaleCss(sc.x, sc.y), top |-> Px(top),
             width |-> Px(thisWidth), height |-> Px(thisHeight),
             margin |-> Px(Zero), padding |-> Px(Zero)]
        mini2 == cssObjAssign(m.mini, miniElementCss)
        regionTop == RMul(Whole(base.offsetTop), sc.y)
        regionElementCss ==
            (st["position"].v :> Px(offsetLeftRight)) @@
            [width |-> Px(widthOfMini(mini2)),
             height |-> Px(RMul(Whole(m.win.h), sc.y)),
             margin |-> Px(Zero),
             top |-> Px(RSub(RAdd(RMul(m.win.scrollY, sc.y), offsetTop), regionTop))]
    IN  [m EXCEPT !.mini = mini2,
                  !.region = cssObjAssign(m.region, regionElementCss),
                  !.cbLog = Append(@, [element |-> "miniElement", scale |-> sc])]

\* The scroll mirroring pass without its `if (!this.shown)` guard.
onScrollHandlerUnguarded(m) ==
    LET sc == scale(m)
        offsetTop == RMul(Whole(m.win.h), ToNumber(m.settings["offsetHeightRatio"]))
        top == RMul(Whole(base.offsetTop), sc.y)
        pos == RMul(m.win.scrollY, sc.y)
        regionHeight == outerHeightOfRegion(m.region)
        bottom == RAdd(RMul(Whole(base.outer), sc.y), top)
    IN  IF RLt(RAdd(RAdd(pos, regionHeight), offsetTop), top) \/ RLt(bottom, pos)
        THEN [m EXCEPT !.region = cssObjAssign(@, [display |-> Kw("none")])]
        ELSE [m EXCEPT !.region = cssObjAssign(@,
                 [top |-> Px(RAdd(offsetTop, pos)), display |-> Kw("block")])]

\* The scroll mirroring pass with closed comparisons at the two edges.
onScrollHandlerClosed(m) ==
    IF ~m.shown THEN m
    ELSE
    LET sc == scale(m)
        offsetTop == RMul(Whole(m.win.h), ToNumber(m.settings["offsetHeightRatio"]))
        top == RMul(Whole(base.offsetTop), sc.y)
        pos == RMul(m.win.scrollY, sc.y)
        regionHeight == outerHeightOfRegion(m.region)
        bottom == RAdd(RMul(Whole(base.outer), sc.y), top)
    IN  IF RLe(RAdd(RAdd(pos, regionHeight), offsetTop), top) \/ RLe(bottom, pos)
        THEN [m EXCEPT !.region = cssObjAssign(@, [display |-> Kw("none")])]
        ELSE [m EXCEPT !.region = cssObjAssign(@,
                 [top |-> Px(RAdd(offsetTop, pos)), display |-> Kw("block")])]

\* The handler _genOnScrollHandler returns: the scroll mirroring pass.
onScrollHandler(m) ==
    IF ~m.shown THEN m
    ELSE
    LET sc == scale(m)
        offsetTop == RMul(Whole(m.win.h), ToNumber(m.settings["offsetHeightRatio"]))
        top == RMul(Whole(base.offsetTop), sc.y)
        pos == RMul(m.win.scrollY, sc.y)
        regionHeight == outerHeightOfRegion(m.region)
        bottom == RAdd(RMul(Whole(base.outer), sc.y), top)
    IN  IF RLt(RAdd(RAdd(pos, regionHeight), offsetTop), top) \/ RLt(bottom, pos)
        THEN [m EXCEPT !.region = cssObjAssign(@, [display |-> Kw("none")])]
        ELSE [m EXCEPT !.region = cssObjAssign(@,
                 [top |-> Px(RAdd(offsetTop, pos)), display |-> Kw("block")])]

\* show without its `if (!this.shown)` guard.
showAlways(m) ==
    onResizeHandler([m EXCEPT !.mini = showElement(@),
                              !.region = showElement(@),
                              !.shown = TRUE])

\* show without its trailing layout pass.
showNoLayout(m) ==
    IF ~m.shown
    THEN [m EXCEPT !.mini = showElement(@), !.region = showElement(@), !.shown = TRUE]
    ELSE m

\* show
show(m) ==
    IF ~m.shown
    THEN onResizeHandler([m EXCEPT !.mini = showElement(@),
                                   !.region = showElement(@),
                                   !.shown = TRUE])
    ELSE m

\* hide that forgets the region.
hidePreviewOnly(m) ==
    IF m.shown
    THEN [m EXCEPT !.mini = hideElement(@), !.shown = FALSE]
    ELSE m

\* hide
hide(m) ==
    IF m.shown
    THEN [m EXCEPT !.mini = hideElement(@), !.region = hideElement(@), !.shown = FALSE]
    ELSE m

\* toggle
toggle(m) ==
    LET m2 == [m EXCEPT !.mini = toggleElement(@),
                        !.region = toggleElement(@),
                        !.shown = ~m.shown]
    IN  IF m2.shown THEN onResizeHandler(m2) ELSE m2

\* A setter that stores the value before it validates it.
setPropertyStoreFirst(prop, redraw, value, m) ==
    LET e == validate(prop, value)
        m2 == [m EXCEPT !.settings[prop] = value]
    IN  IF e.thrown THEN [m2 EXCEPT !.err = e]
        ELSE IF redraw THEN onResizeHandler(m2) ELSE m2

\* A setter whose layout pass ignores the shown flag.
setPropertyLayoutAlways(prop, redraw, value, m) ==
    LET e == validate(prop, value)
    IN  IF e.thrown THEN [m EXCEPT !.err = e]
        ELSE LET m2 == [m EXCEPT !.settings[prop] = value]
                 m3 == onResizeHandler([m2 EXCEPT !.shown = TRUE])
             IN  IF redraw THEN [m3 EXCEPT !.shown = m.shown] ELSE m2

\* A setter that runs the layout pass before it stores the value.
setPropertyRedrawFirst(prop, redraw, value, m) ==
    LET e == validate(prop, value)
    IN  IF e.thrown THEN [m EXCEPT !.err = e]
        ELSE LET m2 == IF redraw THEN onResizeHandler(m) ELSE m
             IN  [m2 EXCEPT !.settings[prop] = value]

\* The function _genSetPropertyFunction(prop, redraw) returns, applied to value.
setProperty(prop, redraw, value, m) ==
    LET e == validate(prop, value)
    IN  IF e.thrown THEN [m EXCEPT !.err = e]
        ELSE LET m2 == [m EXCEPT !.settings[prop] = value]
             IN  IF redraw THEN onResizeHandler(m2) ELSE m2

\* setPosition without the clearing of the old edge.
setPositionKeepOld(position, m) ==
    LET oldValue == m.settings["position"]
        e == validate("position", position)
    IN  IF e.thrown THEN [m EXCEPT !.err = e]
        ELSE LET m2 == [m EXCEPT !.settings["position"] = position]
             IN  IF oldValue # position THEN onResizeHandler(m2) ELSE m2

\* setPosition
setPosition(position, m) ==
    LET oldValue == m.settings["position"]
        e == validate("position", position)
    IN  IF e.thrown THEN [m EXCEPT !.err = e]
        ELSE LET m2 == [m EXCEPT !.settings["position"] = position]
             IN  IF oldValue # position
                 THEN LET m3 == onResizeHandler(m2)
                          css == (oldValue.v :> Unset)
                      IN  [m3 EXCEPT !.region = cssObjAssign(@, css),
                                     !.mini = cssObjAssign(@, css)]
                 ELSE m2

----------------------------------------------------------------------------
(* Construction.                                                           *)

ClickListeners ==
    {<<"document", "mouseup", "onMouseUpHandler">>,
     <<"document", "mousemove", "onMouseMoveHandler">>}
    \cup {<<el, "mousedown", "onMouseDownHandler">> : el \in {"region", "miniElement"}}
    \cup {<<el, "mouseup", "onMouseUpHandler">> : el \in {"region", "miniElement"}}
    \cup {<<el, "mousemove", "onMouseMoveHandler">> : el \in {"region", "miniElement"}}
    \cup {<<el, "click", "onClickHandler">> : el \in {"region", "miniElement"}}
TouchListeners ==
    {<<"document", type, "touchHandler">> :
        type \in {"touchstart", "touchmove", "touchend", "touchcancel"}}
HoverListeners ==
    {<<el, "mouseover", "onMouseOverHandler">> : el \in {"region", "miniElement"}}
    \cup {<<el, "mouseout", "onMouseOutHandler">> : el \in {"region", "miniElement"}}

\* The constructor from the clone on, wiring the click and drag listeners
\* whatever allowClick says.
constructDomWired(st, m) ==
    LET m1 == [m EXCEPT !.settings = st,
                        !.shown = FALSE, !.mousedown = FALSE,
                        !.onSmoothScroll = FALSE,
                        !.lastTouchType = "",
                        !.body = Append(Append(@, "region"), "miniElement")]
        m2 == onResizeHandler(m1)
        m3 == [m2 EXCEPT !.listeners = @ \cup {<<"window", "resize", "onResizeHandler">>,
                                                <<"window", "scroll", "onScrollHandler">>}]
        m4 == [m3 EXCEPT !.listeners = @ \cup ClickListeners,
                         !.mini = cssObjAssign(@, [cursor |-> Kw("pointer")]),
                         !.region = cssObjAssign(@, [cursor |-> Kw("pointer")])]
        m5 == IF Truthy(st["touch"])
              THEN [m4 EXCEPT !.listeners = @ \cup TouchListeners]
              ELSE m4
        fade == [transition |-> <<"transition", "opacity", ToNumber(st["hoverFadeSpeed"])>>]
    IN  IF Truthy(st["fadeHover"])
        THEN [m5 EXCEPT !.listeners = @ \cup HoverListeners,
                        !.mini = cssObjAssign(@, fade),
                        !.region = cssObjAssign(@, fade)]
        ELSE m5

\* The constructor from the clone on (lines 160-266): runs once the merged
\* configuration has passed _validateProps.
constructDom(st, m) ==
    LET m1 == [m EXCEPT !.settings = st,
                        !.shown = FALSE, !.mousedown = FALSE,
                        !.onSmoothScroll = FALSE,
                        !.lastTouchType = "",
                        !.body = Append(Append(@, "region"), "miniElement")]
        m2 == onResizeHandler(m1)
        m3 == [m2 EXCEPT !.listeners = @ \cup {<<"window", "resize", "onResizeHandler">>,
                                                <<"window", "scroll", "onScrollHandler">>}]
        m4 == IF Truthy(st["allowClick"])
              THEN [m3 EXCEPT !.listeners = @ \cup ClickListeners,
                              !.mini = cssObjAssign(@, [cursor |-> Kw("pointer")]),
                              !.region = cssObjAssign(@, [cursor |-> Kw("pointer")])]
              ELSE m3
        m5 == IF Truthy(st["touch"])
              THEN [m4 EXCEPT !.listeners = @ \cup TouchListeners]
              ELSE m4
        fade == [transition |-> <<"transition", "opacity", ToNumber(st["hoverFadeSpeed"])>>]
    IN  IF Truthy(st["fadeHover"])
        THEN [m5 EXCEPT !.listeners = @ \cup HoverListeners,
                        !.mini = cssObjAssign(@, fade),
                        !.region = cssObjAssign(@, fade)]
        ELSE m5

\* A constructor that validates only after it has built and wired the DOM.
constructThenValidate(options, m) ==
    LET merged == Merge(options)
    IN  IF merged["position"].t # "str"
        THEN [m EXCEPT !.err = ErrorOf("TypeError", merged["position"])]
        ELSE LET st == LowerPosition(merged)
                 e == validateProps(st)
             IN  [constructDom(st, m) EXCEPT !.err = e]

\* constructor(baseElement, options)
construct(options, m) ==
    LET merged == Merge(options)
    IN  IF merged["position"].t # "str"
        THEN [m EXCEPT !.err = ErrorOf("TypeError", merged["position"])]
        ELSE LET st == LowerPosition(merged)
                 e == validateProps(st)
             IN  IF e.thrown THEN [m EXCEPT !.err = e] ELSE constructDom(st, m)

----------------------------------------------------------------------------
(* The scroll synchronizer.                                                *)

\* Number.prototype.toString switches to exponent notation below 10^-6, and
\* parseInt then reads the leading digit only.
Tiny(x) ==
    /\ x[1] > 0
    /\ x[1] < x[2]
    /\ x[2] \div x[1] >= 1000000
    /\ x # <<1, 1000000>>

RECURSIVE LeadingDigit(_)
LeadingDigit(x) ==
    IF RLe(One, x) THEN RFloor(x) ELSE LeadingDigit(RMul(x, Whole(10)))

\* parseInt(x) of a number
parseInt(x) ==
    CASE Tiny(x) -> LeadingDigit(x)
      [] Tiny(RNeg(x)) -> -LeadingDigit(RNeg(x))
      [] OTHER -> RTrunc(x)

\* Math.max(target, Math.min(target, maxTarget))
clampTarget(target, maxTarget) == RMax(target, RMin(target, maxTarget))

\* The step parameters with the fast case taken only above r = 4.
stepParamsAbove4(delay, distance) ==
    LET fast == distance = Zero \/ RLt(Whole(4), RDiv(delay, distance))
        r == RDiv(delay, distance)
        unitScroll ==
            IF fast THEN One
            ELSE IF RLe(One, r) THEN Whole(parseInt(r) * 4)
            ELSE RDiv(Whole(4), r)
        unitDelay == IF fast THEN parseInt(One) ELSE 4
    IN  [unitScroll |-> unitScroll, unitDelay |-> unitDelay,
         count |-> parseInt(RDiv(distance, unitScroll))]

\* Lines 536-550: the step size, the timer interval and the tick count.
\* delay / 0 is Infinity, which takes the first branch.
stepParams(delay, distance) ==
    LET fast == distance = Zero \/ RLe(Whole(4), RDiv(delay, distance))
        r == RDiv(delay, distance)
        unitScroll ==
            IF fast THEN One
            ELSE IF RLe(One, r) THEN Whole(parseInt(r) * 4)
            ELSE RDiv(Whole(4), r)
        unitDelay == IF fast THEN parseInt(One) ELSE 4
    IN  [unitScroll |-> unitScroll, unitDelay |-> unitDelay,
         count |-> parseInt(RDiv(distance, unitScroll))]

\* A timer id that setInterval has not handed out yet, and one whose timer
\* clearInterval has cancelled. Ids are not reused.
IdleTimer ==
    [active |-> FALSE, used |-> FALSE, next |-> Zero, count |-> 0, direction |-> FALSE,
     unitScroll |-> Zero, unitDelay |-> 0, target |-> Zero]
ClearedTimer == [IdleTimer EXCEPT !.used = TRUE]

FreeSlots(m) == {i \in DOMAIN m.timers : ~m.timers[i].used}
ActiveTimers(m) == {i \in DOMAIN m.timers : m.timers[i].active}

\* window.setInterval(smoothScroll, unitDelay): the closure's variables.
setInterval(closure, m) ==
    LET i == CHOOSE j \in FreeSlots(m) : \A k \in FreeSlots(m) : j <= k
    IN  [m EXCEPT !.timers[i] = closure]

\* scrollTop(e), e = [type, clientY]
scrollTop(e, m) ==
    IF ~m.shown THEN m
    ELSE
    LET sc == scale(m)
        offsetTop == RMul(Whole(m.win.h), ToNumber(m.settings["offsetHeightRatio"]))
        top == RMul(Whole(base.offsetTop), sc.y)
        regionHeight == outerHeightOfRegion(m.region)
        target0 == RDiv(RAdd(RSub(RSub(Whole(e.clientY), RDiv(regionHeight, Two)),
                                  offsetTop), top), sc.y)
    IN  IF e.type = "click" /\ Truthy(m.settings["smoothScroll"])
        THEN LET current == m.win.scrollY
                 maxTarget == Whole(base.outer)
                 target == clampTarget(target0, maxTarget)
                 direction == RLt(current, target)
                 delay == ToNumber(m.settings["smoothScrollDelay"])
                 distance == RAbs(RSub(current, target))
                 p == stepParams(delay, distance)
                 closure == [active |-> TRUE, used |-> TRUE, next |-> current, count |-> p.count,
                             direction |-> direction, unitScroll |-> p.unitScroll,
                             unitDelay |-> p.unitDelay, target |-> target]
             IN  [setInterval(closure, [m EXCEPT !.onSmoothScroll = TRUE])
                    EXCEPT !.stopped = TRUE]
        ELSE [scrollTo(target0, m) EXCEPT !.stopped = TRUE]

\* The timer callback without its final `next = target`.
smoothScrollNoSnap(i, m) ==
    LET t == m.timers[i]
        next1 == IF t.direction THEN RAdd(t.next, t.unitScroll)
                 ELSE RSub(t.next, t.unitScroll)
        count1 == t.count - 1
        m1 == IF count1 <= 0
              THEN [m EXCEPT !.timers[i] = ClearedTimer, !.winFlag = "false"]
              ELSE [m EXCEPT !.timers[i].next = next1, !.timers[i].count = count1]
    IN  scrollTo(next1, m1)

\* The timer callback clearing its timer only once the count is below zero.
smoothScrollBelowZero(i, m) ==
    LET t == m.timers[i]
        next1 == IF t.direction THEN RAdd(t.next, t.unitScroll)
                 ELSE RSub(t.next, t.unitScroll)
        count1 == t.count - 1
        done == count1 < 0
        next2 == IF done THEN t.target ELSE next1
        m1 == IF done
              THEN [m EXCEPT !.timers[i] = ClearedTimer, !.winFlag = "false"]
              ELSE [m EXCEPT !.timers[i].next = next2, !.timers[i].count = count1]
    IN  scrollTo(next2, m1)

\* The timer callback stepping against its direction.
smoothScrollAway(i, m) ==
    LET t == m.timers[i]
        next1 == IF t.direction THEN RSub(t.next, t.unitScroll)
                 ELSE RAdd(t.next, t.unitScroll)
        count1 == t.count - 1
        done == count1 <= 0
        next2 == IF done THEN t.target ELSE next1
        m1 == IF done
              THEN [m EXCEPT !.timers[i] = ClearedTimer, !.winFlag = "false"]
              ELSE [m EXCEPT !.timers[i].next = next2, !.timers[i].count = count1]
    IN  scrollTo(next2, m1)

\* One call of the timer callback `smoothScroll` of timer i. The callback is a
\* plain function, so its `this` is the window, not the instance.
smoothScroll(i, m) ==
    LET t == m.timers[i]
        next1 == IF t.direction THEN RAdd(t.next, t.unitScroll)
                 ELSE RSub(t.next, t.unitScroll)
        count1 == t.count - 1
        done == count1 <= 0
        next2 == IF done THEN t.target ELSE next1
        m1 == IF done
              THEN [m EXCEPT !.timers[i] = ClearedTimer, !.winFlag = "false"]
              ELSE [m EXCEPT !.timers[i].next = next2, !.timers[i].count = count1]
    IN  scrollTo(next2, m1)

\* The mouse handlers.
onMouseUpHandler(m) ==
    [m EXCEPT !.mousedown = FALSE,
              !.baseClass = removeClass(@, "noselect"),
              !.regionClass = removeClass(@, "dragging")]

\* A mousemove handler that looks at the drag flag alone.
onMouseMoveWhileDown(e, m) ==
    IF ~m.mousedown THEN m ELSE scrollTop(e, m)

onMouseMoveHandler(e, m) ==
    IF ~m.mousedown \/ m.onSmoothScroll THEN m ELSE scrollTop(e, m)

onMouseDownHandler(m) ==
    [m EXCEPT !.mousedown = TRUE,
              !.baseClass = addClass(@, "noselect"),
              !.regionClass = addClass(@, "dragging")]

\* A click handler that leaves the drag flag alone.
onClickKeepsDrag(e, m) == scrollTop(e, m)

onClickHandler(e, m) == [scrollTop(e, m) EXCEPT !.mousedown = FALSE]

\* target.dispatchEvent(e) for a bubbling mouse event: the listener of the
\* target runs, then, unless it stopped propagation, the document's.
Hears(m, target, type) == \E l \in m.listeners : l[1] = target /\ l[2] = type

runListener(e, m) ==
    CASE e.type = "mousedown" -> onMouseDownHandler(m)
      [] e.type = "mousemove" -> onMouseMoveHandler(e, m)
      [] e.type = "mouseup" -> onMouseUpHandler(m)
      [] e.type = "click" -> onClickHandler(e, m)

dispatchEvent(e, target, m) ==
    LET m1 == IF Hears(m, target, e.type) THEN runListener(e, m) ELSE m
    IN  IF target # "document" /\ ~m1.stopped /\ Hears(m1, "document", e.type)
        THEN runListener(e, m1)
        ELSE m1

\* The touch handler, e = [type, n, target, clientY] with n the length of
\* e.changedTouches. prevTouch records the event itself.
events == <<"touchstart", "touchmove", "touchend">>
mouseEvents == <<"mousedown", "mousemove", "mouseup">>
indexOf(seq, x) == IF \E i \in DOMAIN seq : seq[i] = x
                   THEN CHOOSE i \in DOMAIN seq : seq[i] = x
                   ELSE -1

touchHandler(e, m) ==
    LET seen == [m EXCEPT !.prevTouch = IF e.n > 1 THEN "multi" ELSE e.type]
        ev == indexOf(events, e.type)
    IN  IF e.n > 1 THEN seen
        ELSE IF ev = -1 THEN seen
        ELSE LET type == IF e.type = events[3] /\ m.lastTouchType = events[1]
                         THEN "click"
                         ELSE mouseEvents[ev]
                 m1 == dispatchEvent([type |-> type, clientY |-> e.clientY], e.target,
                                     [seen EXCEPT !.dispLog = Append(@, <<type, e.target>>)])
             IN  [m1 EXCEPT !.lastTouchType = e.type]

----------------------------------------------------------------------------
(* The document as element trees, for the constructor's lines 159-195: the  *)
(* clone, the removal of earlier previews and regions from it, the marker   *)
(* classes, and the find-suppression rewrite.  An element is its class      *)
(* names, its child elements and its own markup as a sequence of            *)
(* characters; `rewrites` counts how often _disableFind has rewritten the   *)
(* markup.                                                                  *)

Element(cls, kids, html) == [cls |-> cls, kids |-> kids, html |-> html, rewrites |-> 0]

\* '<span style="position:absolute; right:-999999999px;">' + '.' + '</span>'
Decoy ==
    <<"<", "s", "p", "a", "n", " ", "s", "t", "y", "l", "e", "=", "\"",
      "p", "o", "s", "i", "t", "i", "o", "n", ":", "a", "b", "s", "o", "l",
      "u", "t", "e", ";", " ", "r", "i", "g", "h", "t", ":", "-", "9", "9",
      "9", "9", "9", "9", "9", "9", "9", "p", "x", ";", "\"", ">", ".",
      "<", "/", "s", "p", "a", "n", ">">>

\* The loop of _disableFind over html[lo..hi], entered with the flag `stop`
\* (true inside a tag): what it appends to newHTML and the flag it leaves.
\* The range is run as its two halves in order, the second half entered with
\* the flag the first one leaves.
RECURSIVE disableFindLoop(_, _, _, _)
disableFindLoop(html, lo, hi, stop) ==
    IF lo > hi THEN [newHTML |-> <<>>, stop |-> stop]
    ELSE IF lo = hi
    THEN LET stop1 == IF html[lo] = ">" THEN FALSE
                      ELSE IF html[lo] = "<" THEN TRUE ELSE stop
         IN  [newHTML |-> <<html[lo]>>
                            \o (IF ~stop1 THEN Decoy ELSE <<>>)
                            \o (IF html[lo] = " " THEN <<" ">> ELSE <<>>),
              stop |-> stop1]
    ELSE LET mid == (lo + hi) \div 2
             first == disableFindLoop(html, lo, mid, stop)
             second == disableFindLoop(html, mid + 1, hi, first.stop)
         IN  [newHTML |-> first.newHTML \o second.newHTML, stop |-> second.stop]

\* newHTML of _disableFind for the markup html
disableFindHtml(html) == disableFindLoop(html, 1, Len(html), FALSE).newHTML

\* currentElement.innerHTML = newHTML: the element's markup and, inside it,
\* the markup of its descendants.
RECURSIVE setInnerHTML(_)
setInnerHTML(el) ==
    [el EXCEPT !.html = disableFindHtml(@),
               !.rewrites = @ + 1,
               !.kids = [i \in 1..Len(@) |-> setInnerHTML(@[i])]]

\* _disableFind(selectAll('.unsearchable')) over a list of sibling trees: each
\* outermost marked element is rewritten; marked elements inside it are
\* replaced by the rewrite before forEach reaches them.
RECURSIVE disableFind(_)
disableFind(elements) ==
    [i \in 1..Len(elements) |->
        IF "unsearchable" \in elements[i].cls
        THEN setInnerHTML(elements[i])
        ELSE [elements[i] EXCEPT !.kids = disableFind(@)]]

RECURSIVE Keep(_, _)
Keep(elements, gone) ==
    IF elements = <<>> THEN <<>>
    ELSE IF gone[1] THEN Keep(Tail(elements), Tail(gone))
    ELSE <<Head(elements)>> \o Keep(Tail(elements), Tail(gone))

\* remove(selectAll('.minimap .noselect', el)): the descendants of el with
\* class noselect that have an ancestor with class minimap are taken out.
RECURSIVE removeNoselectInMinimap(_, _)
removeNoselectInMinimap(el, inside) ==
    LET under == inside \/ "minimap" \in el.cls
        gone == [i \in 1..Len(el.kids) |-> under /\ "noselect" \in el.kids[i].cls]
        kept == Keep(el.kids, gone)
    IN  [el EXCEPT !.kids = [i \in 1..Len(kept) |-> removeNoselectInMinimap(kept[i], under)]]

\* remove(selectAll('.miniregion', el))
RECURSIVE removeMiniregion(_)
removeMiniregion(el) ==
    LET gone == [i \in 1..Len(el.kids) |-> "miniregion" \in el.kids[i].cls]
        kept == Keep(el.kids, gone)
    IN  [el EXCEPT !.kids = [i \in 1..Len(kept) |-> removeMiniregion(kept[i])]]

\* The element the constructor is given: the document body or the first
\* element of the page.
baseElement(source, d) ==
    IF source = "body" THEN Element({}, d, <<>>) ELSE d[1]

\* Lines 159-195 on the document d, for a base element and settings.disableFind.
constructDocument(source, disableFindOn, d) ==
    LET cloned == baseElement(source, d)
        stripped == removeMiniregion(removeNoselectInMinimap(cloned, FALSE))
        marked == [stripped EXCEPT !.cls = @ \cup {"minimap", "noselect"}]
        miniElement ==
            IF disableFindOn
            THEN [marked EXCEPT !.kids =
                     [i \in 1..Len(@) |-> [@[i] EXCEPT !.cls = @ \cup {"unsearchable"}]]]
            ELSE marked
        region == Element({"miniregion"}, <<>>, <<>>)
    IN  disableFind(Append(Append(d, region), miniElement))

\* The page before any construction: one source element with one child.
Page(html) == <<Element({}, <<Element({}, <<>>, html)>>, <<>>)>>
InitialDom == Page(<<"a">>)

----------------------------------------------------------------------------
(* Inputs of the model.                                                    *)

MaxTimers == 2

Viewports == {[w |-> 1000, h |-> 500], [w |-> 800, h |-> 400]}

\* The source element: its bounding box, its offsetTop, its outer height and
\* the height of the document around it. The first is a source that is the
\* whole page, the second a section in the middle of a longer page.
BaseGeometries ==
    {[w |-> 1000, h |-> 5000, offsetTop |-> 0, outer |-> 5000, docH |-> 5000],
     [w |-> 800, h |-> 2000, offsetTop |-> 1000, outer |-> 2000, docH |-> 6000]}

ScrollOffsets == {0, 1000, 4000}

NoOptions == [k \in {} |-> Undefined]
ValidOptions ==
    {NoOptions,
     [position |-> Str("Left"), allowClick |-> Bool(FALSE)]}
InvalidOptions ==
    {[heightRatio |-> Num(Zero)],
     [widthRatio |-> Num(<<3, 5>>)],
     [position |-> Str("top")],
     [position |-> Num(One)],
     [smoothScrollDelay |-> Num(Whole(3))],
     [onPreviewChange |-> Undefined],
     [color |-> Str("red")],
     [disableFind |-> Str("yes"), position |-> Str("left")]}

\* Values handed to the setters: for each field the values that keep it, one
\* that changes it, and values outside its range.
SetterValues(prop) ==
    CASE prop = "heightRatio" -> {Num(<<3, 5>>), Num(One), Num(Zero)}
      [] prop = "widthRatio" -> {Num(<<1, 20>>), Num(<<3, 5>>)}
      [] prop = "offsetHeightRatio" -> {Num(<<7, 200>>), Num(<<-1, 10>>)}
      [] prop = "offsetWidthRatio" -> {Num(<<7, 200>>), Num(One)}
      [] prop = "smoothScroll" -> {Bool(TRUE)}
      [] prop = "smoothScrollDelay" -> {Num(Whole(200)), Num(Whole(3))}
      [] OTHER -> {}
PositionValues == {Str("left"), Str("right"), Str("top")}

Setters == <<"heightRatio", "widthRatio", "offsetHeightRatio", "offsetWidthRatio",
             "smoothScroll", "smoothScrollDelay">>

----------------------------------------------------------------------------
(* The state machine.                                                      *)

\* The page before `new MiniMap(baseElement, options)`.
BlankPage(w) ==
    [settings |-> NoSettings, shown |-> FALSE, mousedown |-> FALSE,
     onSmoothScroll |-> FALSE, winFlag |-> "undefined",
     mini |-> NoStyle, region |-> NoStyle,
     baseClass |-> {}, regionClass |-> {"miniregion"},
     body |-> <<"baseElement">>, listeners |-> {},
     win |-> [w |-> w.w, h |-> w.h, scrollY |-> Zero],
     timers |-> [i \in 1..MaxTimers |-> IdleTimer],
     err |-> NoError, stopped |-> FALSE, cbLog |-> <<>>, scrollLog |-> <<>>,
     lastTouchType |-> "", prevTouch |-> "", dispLog |-> <<>>]

\* The instance's variables hold `m`.
InstallInstance(m) ==
    /\ settings = m.settings
    /\ shown = m.shown
    /\ mousedown = m.mousedown
    /\ onSmoothScroll = m.onSmoothScroll
    /\ winFlag = m.winFlag
    /\ miniStyle = m.mini
    /\ regionStyle = m.region
    /\ baseClass = m.baseClass
    /\ regionClass = m.regionClass
    /\ body = m.body
    /\ listeners = m.listeners
    /\ win = m.win
    /\ timers = m.timers
    /\ lastTouchType = m.lastTouchType
    /\ prevTouch = m.prevTouch
    /\ dispLog = m.dispLog

\* The variables hold `m` on the initial page, with the elements `m` has
\* appended to it if it is a constructed instance.
Install(m) ==
    /\ InstallInstance(m)
    /\ dom = IF Len(m.body) > 1
             THEN constructDocument("section", m.settings["disableFind"] = Bool(TRUE),
                                    InitialDom)
             ELSE InitialDom

NoOp == [name |-> "none", threw |-> FALSE, wasShown |-> FALSE, stopped |-> FALSE]

InitialViewport == [w |-> 1000, h |-> 500]

Init ==
    /\ base \in BaseGeometries
    /\ phase = "new"
    /\ Install(BlankPage(InitialViewport))
    /\ lastOp = NoOp
    /\ cbLog = <<>>
    /\ scrollLog = <<>>

\* A handler has run to completion and left `m`. lastOp names it ("set" for
\* each of the generated setters).
CommitInstance(m, name) ==
    \E r \in {m} :
        /\ settings' = r.settings
        /\ shown' = r.shown
        /\ mousedown' = r.mousedown
        /\ onSmoothScroll' = r.onSmoothScroll
        /\ winFlag' = r.winFlag
        /\ miniStyle' = r.mini
        /\ regionStyle' = r.region
        /\ baseClass' = r.baseClass
        /\ regionClass' = r.regionClass
        /\ body' = r.body
        /\ listeners' = r.listeners
        /\ win' = r.win
        /\ timers' = r.timers
        /\ cbLog' = r.cbLog
        /\ scrollLog' = r.scrollLog
        /\ lastTouchType' = r.lastTouchType
        /\ prevTouch' = r.prevTouch
        /\ dispLog' = r.dispLog
        /\ lastOp' = [name |-> name, threw |-> r.err.thrown,
                      wasShown |-> shown, stopped |-> r.stopped]
        /\ UNCHANGED base

\* A handler other than the constructor: the document's elements stay.
Commit(m, name) == CommitInstance(m, name) /\ UNCHANGED dom

Construct ==
    /\ phase = "new"
    /\ \E options \in {NoOptions} \cup InvalidOptions :
          LET m == construct(options, Cur)
          IN  /\ phase' = IF m.err.thrown THEN "failed" ELSE "live"
              /\ CommitInstance(m, "constructor")
              /\ dom' = IF m.err.thrown THEN dom
                        ELSE constructDocument("section",
                                 m.settings["disableFind"] = Bool(TRUE), dom)

Show == phase = "live" /\ Commit(show(Cur), "show") /\ UNCHANGED phase
Hide == phase = "live" /\ Commit(hide(Cur), "hide") /\ UNCHANGED phase
Toggle == phase = "live" /\ Commit(toggle(Cur), "toggle") /\ UNCHANGED phase

SetProperty ==
    /\ phase = "live"
    /\ \E i \in 1..Len(Setters) : \E value \in SetterValues(Setters[i]) :
          Commit(setProperty(Setters[i], Setters[i] \in redrawAttributes, value, Cur),
                 "set")
    /\ UNCHANGED phase

SetPosition ==
    /\ phase = "live"
    /\ \E position \in PositionValues :
          Commit(setPosition(position, Cur), "setPosition")
    /\ UNCHANGED phase

\* The window is resized and the resize listener runs.
Resize ==
    /\ phase = "live"
    /\ <<"window", "resize", "onResizeHandler">> \in listeners
    /\ \E w \in Viewports :
          LET m == [Cur EXCEPT !.win.w = w.w, !.win.h = w.h,
                        !.win.scrollY = RMin(@, Whole(IF base.docH > w.h THEN base.docH - w.h ELSE 0))]
          IN  Commit(onResizeHandler(m), "resize")
    /\ UNCHANGED phase

\* The user scrolls the page and the scroll listener runs.
Scroll ==
    /\ phase = "live"
    /\ <<"window", "scroll", "onScrollHandler">> \in listeners
    /\ \E y \in ScrollOffsets :
          LET m == [Cur EXCEPT !.win.scrollY = RMin(Whole(y), Whole(MaxScrollY(Cur)))]
          IN  Commit(onScrollHandler(m), "scroll")
    /\ UNCHANGED phase

Next ==
    \/ Construct
    \/ Show
    \/ Hide
    \/ Toggle
    \/ SetProperty
    \/ SetPosition
    \/ Resize
    \/ Scroll

Spec == Init /\ [][Next]_vars

----------------------------------------------------------------------------
(* Claims about construction and the control surface, checked under Spec.  *)

Live == phase = "live"
Same(m) == [m EXCEPT !.err = NoError] = Cur

\* C1: a constructor call whose merged configuration fails validation throws
\* before it clones, appends or listens: every invalid configuration of the
\* model throws, and after a failed construction the document holds the source
\* element alone, no listener is registered, the elements carry no style and
\* onPreviewChange was not invoked.
C1_ConstructorFailsFast ==
    /\ phase = "new" =>
          /\ \A options \in InvalidOptions : construct(options, Cur).err.thrown
          /\ \A options \in ValidOptions : ~construct(options, Cur).err.thrown
    /\ phase = "failed" =>
          /\ lastOp.name = "constructor" /\ lastOp.threw
          /\ body = <<"baseElement">>
          /\ listeners = {}
          /\ miniStyle = NoStyle /\ regionStyle = NoStyle
          /\ cbLog = <<>>

C1_Witness == phase = "failed" /\ lastOp.threw

\* Values outside each setter's range.
RejectedValues(prop) ==
    CASE prop = "heightRatio" -> {Num(Zero)}
      [] prop = "widthRatio" -> {Num(<<3, 5>>)}
      [] prop = "offsetHeightRatio" -> {Num(<<-1, 10>>)}
      [] prop = "offsetWidthRatio" -> {Num(One)}
      [] prop = "smoothScrollDelay" -> {Num(Whole(3))}
      [] OTHER -> {}
CheckedSetters == {"heightRatio", "widthRatio", "offsetHeightRatio",
                   "offsetWidthRatio", "smoothScrollDelay"}

\* C2: in every reachable state, each setter called with a value outside its
\* range throws and leaves the settings, the flags and both elements' styles as
\* they were, without invoking onPreviewChange; so does setPosition.
C2_FailedSetterChangesNothing ==
    Live =>
      /\ \A prop \in CheckedSetters : \A value \in RejectedValues(prop) :
            /\ value \in SetterValues(prop)
            /\ LET m == setProperty(prop, prop \in redrawAttributes, value, Cur)
               IN  m.err.thrown /\ Same(m)
      /\ LET m == setPosition(Str("top"), Cur)
         IN  m.err.thrown /\ Same(m)
      /\ lastOp.threw =>
            /\ cbLog = <<>>
            /\ \A prop \in CheckedSetters \cap redrawAttributes :
                  ~propValidators(prop, settings[prop])

C2_Witness ==
    /\ Live /\ shown
    /\ lastOp.name = "set" /\ lastOp.threw

\* C3 as stated: the region and the preview element are both hidden or both
\* not hidden in every reachable state.
C3_BothOrNeither == Live => (Hidden(miniStyle) <=> Hidden(regionStyle))

\* C3 amended: show() and hide() set the two displays together. After a show()
\* that found the minimap not shown neither element is hidden, and after a
\* hide() that found it shown both are hidden.
C3_ShowHideTogether ==
    /\ (lastOp.name = "show" /\ ~lastOp.wasShown) =>
          (~Hidden(miniStyle) /\ ~Hidden(regionStyle) /\ shown)
    /\ (lastOp.name = "hide" /\ lastOp.wasShown) =>
          (Hidden(miniStyle) /\ Hidden(regionStyle) /\ ~shown)

C3_Witness ==
    /\ lastOp.name = "hide" /\ lastOp.wasShown
    /\ Hidden(miniStyle) /\ Hidden(regionStyle)

\* C4: toggle() hides both elements and clears shown when the minimap is
\* shown; when it is not shown it displays both, sets shown and runs one
\* layout pass.
C4_Toggle ==
    lastOp.name = "toggle" =>
        IF lastOp.wasShown
        THEN Hidden(miniStyle) /\ Hidden(regionStyle) /\ ~shown
        ELSE ~Hidden(miniStyle) /\ ~Hidden(regionStyle) /\ shown /\ Len(cbLog) = 1

\* C5: show() on a shown minimap and hide() on a hidden one change nothing:
\* no flag, setting, style or listener changes, and onPreviewChange is not
\* invoked.
C5_ShowHideIdempotent ==
    Live => /\ shown => show(Cur) = Cur
            /\ ~shown => hide(Cur) = Cur

C5_Witness == Live /\ lastOp.name = "show" /\ lastOp.wasShown /\ shown

\* show(); scroll events at the unchanged offset; hide(); show()
RECURSIVE ScrollEvents(_, _)
ScrollEvents(n, m) == IF n = 0 THEN m ELSE ScrollEvents(n - 1, onScrollHandler(m))
MaxScrollEvents == 2
RoundTripRestores(m0) ==
    LET m1 == show(m0)
    IN  \A n \in 0..MaxScrollEvents :
           LET m3 == show(hide(ScrollEvents(n, m1)))
           IN  /\ m3.shown = m1.shown
               /\ m3.mini = m1.mini
               /\ m3.region = m1.region

\* C6 as stated: show(); hide(); show() restores the flag and the styles the
\* first show() left, from every reachable state (taken here among the states
\* whose shown flag agrees with the preview's display, which leaves out what
\* toggle() does to a fresh instance).
C6_RoundTripAnywhere ==
    (Live /\ (shown <=> ~Hidden(miniStyle))) => RoundTripRestores(Cur)

\* C6 amended: when the first show() finds the minimap not shown, show();
\* hide(); show() restores the flag and every style the first show() left,
\* also with scroll events between the first show() and the hide().
C6_RoundTripFromHidden == (Live /\ ~shown) => RoundTripRestores(Cur)

\* A hidden state reached by show() ... hide() in which a scroll event after
\* show() moves or hides the region.
C6_Witness ==
    /\ Live /\ ~shown
    /\ lastOp.name = "hide" /\ lastOp.wasShown
    /\ onScrollHandler(show(Cur)).region # show(Cur).region

----------------------------------------------------------------------------
(* Mouse events and timer ticks on a constructed instance.                 *)

ClientYs == {0, 300}
EventTargets == {"region", "miniElement", "document"}

ScrollOptions ==
    {[smoothScrollDelay |-> Num(Whole(4))],
     [smoothScroll |-> Bool(FALSE)],
     [allowClick |-> Bool(FALSE)]}

\* The state after `m = new MiniMap(baseElement, options)`: the elements are
\* in the document and displayed, show() has not been called yet.
InitScroll ==
    /\ base \in BaseGeometries
    /\ phase = "live"
    /\ \E options \in ScrollOptions :
          Install(construct(options, BlankPage(InitialViewport)))
    /\ lastOp = [NoOp EXCEPT !.name = "constructor"]
    /\ cbLog = <<>>
    /\ scrollLog = <<>>

\* The element a user can point at: the document, or an element that is rendered.
Rendered(target) ==
    CASE target = "region" -> ~Hidden(regionStyle)
      [] target = "miniElement" -> ~Hidden(miniStyle)
      [] OTHER -> TRUE

Listens(target, type) == \E l \in listeners : l[1] = target /\ l[2] = type

MouseDown ==
    /\ phase = "live"
    /\ \E target \in EventTargets :
          /\ Rendered(target)
          /\ Commit(IF Listens(target, "mousedown") THEN onMouseDownHandler(Cur) ELSE Cur,
                    "mousedown")
    /\ UNCHANGED phase

\* The event runs the target's listener and then, unless propagation was
\* stopped, the document's.
MouseMove ==
    /\ phase = "live"
    /\ \E target \in EventTargets, y \in ClientYs :
          LET e == [type |-> "mousemove", clientY |-> y]
              m1 == IF Listens(target, "mousemove") THEN onMouseMoveHandler(e, Cur) ELSE Cur
              m2 == IF target # "document" /\ ~m1.stopped /\ Listens("document", "mousemove")
                    THEN onMouseMoveHandler(e, m1) ELSE m1
          IN  Rendered(target) /\ Commit(m2, "mousemove")
    /\ UNCHANGED phase

MouseUp ==
    /\ phase = "live"
    /\ \E target \in EventTargets :
          LET m1 == IF Listens(target, "mouseup") THEN onMouseUpHandler(Cur) ELSE Cur
              m2 == IF target # "document" /\ Listens("document", "mouseup")
                    THEN onMouseUpHandler(m1) ELSE m1
          IN  Rendered(target) /\ Commit(m2, "mouseup")
    /\ UNCHANGED phase

\* A click that would start a timer needs a free timer slot of the model.
StartsTimer(m) == m.shown /\ Truthy(m.settings["smoothScroll"])

Click ==
    /\ phase = "live"
    /\ \E target \in EventTargets, y \in ClientYs :
          LET e == [type |-> "click", clientY |-> y]
          IN  /\ Rendered(target)
              /\ IF Listens(target, "click")
                 THEN /\ StartsTimer(Cur) => FreeSlots(Cur) # {}
                      /\ Commit(onClickHandler(e, Cur), "click")
                 ELSE Commit(Cur, "click")
    /\ UNCHANGED phase

\* Timer i fires.
Tick(i) ==
    /\ phase = "live"
    /\ timers[i].active
    /\ Commit(smoothScroll(i, Cur), "tick")
    /\ UNCHANGED phase

Ticks == \E i \in 1..MaxTimers : Tick(i)

\* The scroll event that follows a change of the scroll offset.
ScrollEvent ==
    /\ phase = "live"
    /\ <<"window", "scroll", "onScrollHandler">> \in listeners
    /\ Commit(onScrollHandler(Cur), "scroll")
    /\ UNCHANGED phase

NextScroll ==
    \/ MouseDown
    \/ MouseMove
    \/ MouseUp
    \/ Click
    \/ Ticks
    \/ ScrollEvent
    \/ Show
    \/ Hide

SpecScroll == InitScroll /\ [][NextScroll]_vars

----------------------------------------------------------------------------
(* Touch events on a constructed, shown instance.                          *)

TouchTypes == {"touchstart", "touchmove", "touchend", "touchcancel"}
TouchCounts == {1, 2}
TouchClientYs == {300}
TouchOptions ==
    {[smoothScrollDelay |-> Num(Whole(4))],
     [smoothScroll |-> Bool(FALSE)],
     [touch |-> Bool(FALSE)],
     [allowClick |-> Bool(FALSE)]}

InitTouch ==
    /\ base \in BaseGeometries
    /\ phase = "live"
    /\ \E options \in TouchOptions :
          Install(show(construct(options, BlankPage(InitialViewport))))
    /\ lastOp = [NoOp EXCEPT !.name = "show"]
    /\ cbLog = <<>>
    /\ scrollLog = <<>>

\* A touch event reaches the document's capturing listener, which dispatches
\* the synthetic mouse event before it returns. lastOp names the touch type.
Touch ==
    /\ phase = "live"
    /\ \E type \in TouchTypes, target \in EventTargets, y \in TouchClientYs,
          n \in TouchCounts :
          LET e == [type |-> type, n |-> n, target |-> target, clientY |-> y]
              tap == n = 1 /\ type = "touchend" /\ lastTouchType = "touchstart"
          IN  /\ Rendered(target)
              /\ (tap /\ StartsTimer(Cur)) => FreeSlots(Cur) # {}
              /\ Commit(IF Listens("document", type) THEN touchHandler(e, Cur) ELSE Cur,
                        type)
    /\ UNCHANGED phase

NextTouch ==
    \/ Touch
    \/ Ticks
    \/ ScrollEvent

SpecTouch == InitTouch /\ [][NextTouch]_vars

----------------------------------------------------------------------------
(* One animated scroll at a time: clicks arrive only while no timer is     *)
(* active, and an active timer keeps firing.                               *)

AnimOptions ==
    {[offsetHeightRatio |-> Num(Zero)],
     [smoothScrollDelay |-> Num(Whole(10))]}
AnimClientYs == {0, 75, 300}

\* The instance is built and shown on a page at scroll offset 0.
InitAnim ==
    /\ base \in BaseGeometries
    /\ phase = "live"
    /\ \E options \in AnimOptions :
          Install(show(construct(options, BlankPage(InitialViewport))))
    /\ lastOp = [NoOp EXCEPT !.name = "show"]
    /\ cbLog = <<>>
    /\ scrollLog = <<>>

ClickAlone ==
    /\ phase = "live"
    /\ ActiveTimers(Cur) = {}
    /\ FreeSlots(Cur) # {}
    /\ \E target \in {"region", "miniElement"}, y \in AnimClientYs :
          /\ Rendered(target)
          /\ Listens(target, "click")
          /\ Commit(onClickHandler([type |-> "click", clientY |-> y], Cur), "click")
    /\ UNCHANGED phase

NextAnim ==
    \/ ClickAlone
    \/ Ticks

SpecAnim ==
    /\ InitAnim
    /\ [][NextAnim]_vars
    /\ \A i \in 1..MaxTimers : WF_vars(Tick(i))

----------------------------------------------------------------------------
(* Claims about the animated scroll.                                       *)

\* The offset the browser settles on for scrollTo(x, y).
Settled(y) == RMax(Zero, RMin(y, Whole(MaxScrollY(Cur))))

\* C7: an animated scroll terminates, and its last tick writes the click's
\* target: every active timer is eventually cleared, and the tick that clears
\* timer i calls scrollTo with exactly the target computed at the click, which
\* is the page's scroll offset from then on wherever the document can scroll
\* that far.
C7_AnimationTerminatesOnTarget ==
    /\ \A i \in 1..MaxTimers : timers[i].active ~> ~timers[i].active
    /\ [][\A i \in 1..MaxTimers :
             (timers[i].active /\ ~timers'[i].active) =>
                 /\ scrollLog' = <<timers[i].target>>
                 /\ win'.scrollY = Settled(timers[i].target)]_vars

\* From offset 0 with delay 200, a click aimed at 1000 has just been completed
\* by its last tick: the timer is cleared and the offset is exactly 1000.
C7_Witness ==
    /\ lastOp.name = "tick"
    /\ ActiveTimers(Cur) = {}
    /\ settings["smoothScrollDelay"] = Num(Whole(200))
    /\ scrollLog = <<Whole(1000)>>
    /\ win.scrollY = Whole(1000)

\* C8: onSmoothScroll is true only while a timer of this instance is active,
\* so it is false again after an animation's last tick.
C8_FlagOnlyWhileAnimating ==
    Live => (onSmoothScroll => ActiveTimers(Cur) # {})

\* C9: at most one animated-scroll timer is active at any time.
C9_AtMostOneTimer == Live => Cardinality(ActiveTimers(Cur)) <= 1

\* C10: the target an animation is started with lies in [0, outer height of
\* the source element].
C10_TargetClamped ==
    Live => \A i \in ActiveTimers(Cur) :
               /\ RLe(Zero, timers[i].target)
               /\ RLe(timers[i].target, Whole(base.outer))

----------------------------------------------------------------------------
(* Claims about the drag state, clicks and the touch adapter.              *)

\* C11: the drag markers agree with the drag state: the region has the
\* 'dragging' class and the source element the 'noselect' class exactly when
\* the mousedown flag is true.
C11_DragMarkersAgree ==
    Live => /\ ("dragging" \in regionClass) <=> mousedown
            /\ ("noselect" \in baseClass) <=> mousedown

\* What a click at clientY y on a listening element does to the current state.
ClickOutcome(y) == onClickHandler([type |-> "click", clientY |-> y], Cur)

\* The click wrote the scroll offset or started an animation.
ScrollSynced(m) == m.scrollLog # <<>> \/ ActiveTimers(m) # ActiveTimers(Cur)

ClickDeliverable ==
    /\ Live
    /\ \E target \in {"region", "miniElement"} :
          Rendered(target) /\ Listens(target, "click")
    /\ StartsTimer(Cur) => FreeSlots(Cur) # {}

MappedType(type, before) ==
    IF type = "touchend" /\ before = "touchstart"
    THEN "click"
    ELSE mouseEvents[indexOf(events, type)]

\* C13: each single-touch touchstart, touchmove or touchend dispatches one
\* synthetic mouse event at the touch target: mousedown, mousemove and mouseup
\* respectively, and click for a touchend whose immediately preceding touch
\* event was a touchstart.
C13_TouchMapping ==
    (Live /\ Listens("document", "touchstart")) =>
        \A i \in DOMAIN events, target \in EventTargets, y \in TouchClientYs :
            LET e == [type |-> events[i], n |-> 1, target |-> target, clientY |-> y]
                tap == e.type = "touchend" /\ lastTouchType = "touchstart"
            IN  (Rendered(target) /\ ((tap /\ StartsTimer(Cur)) => FreeSlots(Cur) # {})) =>
                    touchHandler(e, Cur).dispLog =
                        <<<<MappedType(e.type, prevTouch), target>>>>

----------------------------------------------------------------------------
(* Claims about the layout pass.                                           *)

\* One invocation onPreviewChange(miniElement, scale) with the scale of m.
Notified(m) == <<[element |-> "miniElement", scale |-> scale(m)]>>

\* The window takes the size w (the scroll offset stays inside the document).
Resized(w, m) ==
    [m EXCEPT !.win.w = w.w, !.win.h = w.h,
              !.win.scrollY = RMin(@, Whole(IF base.docH > w.h THEN base.docH - w.h ELSE 0))]

\* Values each ratio setter is tried with on every reachable state: the
\* boundaries the validators name, a value inside, and the nearest values of
\* the model beyond each boundary.
RatioProbes(prop) ==
    CASE prop = "heightRatio" ->
            {Num(<<-1, 1000>>), Num(Zero), Num(<<1, 1000>>), Num(<<1, 10>>),
             Num(<<999, 1000>>), Num(One), Num(<<1001, 1000>>)}
      [] prop = "widthRatio" ->
            {Num(<<-1, 1000>>), Num(Zero), Num(<<1, 1000>>), Num(<<1, 10>>),
             Num(<<499, 1000>>), Num(<<1, 2>>), Num(<<501, 1000>>)}
      [] OTHER ->
            {Num(<<-1, 1000>>), Num(Zero), Num(<<1, 1000>>), Num(<<1, 10>>),
             Num(<<899, 1000>>), Num(<<9, 10>>), Num(<<901, 1000>>)}

\* The probes a setter is tried with while a layout pass follows: without the
\* accepted three-decimal values, whose layout products leave TLC's integers.
FineInside ==
    {Num(<<1, 1000>>), Num(<<999, 1000>>), Num(<<499, 1000>>), Num(<<899, 1000>>)}
SetterProbes(prop) == RatioProbes(prop) \ FineInside

\* C14: while the minimap is shown, a successful redraw-triggering setter
\* stores the new value and invokes onPreviewChange exactly once, with the
\* preview element and the scale of the new value; a resize invokes it exactly
\* once with the scale of the new viewport; a show() that shows the minimap
\* invokes it exactly once; setPosition invokes it exactly once when the
\* position changes.
C14_NotifiedOnce ==
    /\ (Live /\ shown) =>
          /\ \A prop \in redrawAttributes : \A value \in SetterProbes(prop) :
                LET m == setProperty(prop, TRUE, value, Cur)
                IN  ~m.err.thrown =>
                       /\ m.settings[prop] = value
                       /\ m.cbLog = Notified([Cur EXCEPT !.settings[prop] = value])
          /\ \A w \in Viewports :
                onResizeHandler(Resized(w, Cur)).cbLog = Notified(Resized(w, Cur))
          /\ \A position \in PositionValues :
                LET m == setPosition(position, Cur)
                IN  (~m.err.thrown /\ position # settings["position"]) =>
                       m.cbLog = Notified(Cur)
    /\ (Live /\ ~shown) => show(Cur).cbLog = Notified(Cur)

\* A height ratio different from the stored one has just been set on a shown
\* minimap, and the one notification carries the new scale.
C14_Witness ==
    /\ Live /\ shown
    /\ lastOp.name = "set" /\ ~lastOp.threw /\ lastOp.wasShown
    /\ settings["heightRatio"] = Num(Whole(1))
    /\ cbLog = Notified(Cur)

\* The style keys a layout pass writes.
LayoutKeys == {"transform", "top", "width", "height", "margin", "padding", "left", "right"}

\* C15: while shown is false a layout pass is inert: a resize and a
\* redraw-triggering setter leave every style of both elements unchanged and
\* do not invoke onPreviewChange, the constructor's own layout pass writes no
\* layout style and notifies nobody, and a successful setter stores its value,
\* which the next show() lays out and reports.
C15_LayoutInertWhenHidden ==
    /\ (Live /\ ~shown) =>
          /\ \A w \in Viewports :
                onResizeHandler(Resized(w, Cur)) = Resized(w, Cur)
          /\ \A prop \in redrawAttributes : \A value \in SetterProbes(prop) :
                LET m == setProperty(prop, TRUE, value, Cur)
                    stored == [Cur EXCEPT !.settings[prop] = value]
                IN  ~m.err.thrown =>
                       /\ m = stored
                       /\ show(m).cbLog = Notified(stored)
                       /\ show(m).mini["transform"] =
                              ScaleCss(scale(stored).x, scale(stored).y)
    /\ phase = "new" =>
          \A options \in ValidOptions :
             LET m == construct(options, Cur)
             IN  /\ ~m.err.thrown
                 /\ m.cbLog = <<>>
                 /\ \A k \in LayoutKeys : m.mini[k] = Unset /\ m.region[k] = Unset

\* A height ratio was stored by a setter while the minimap was hidden after
\* having been shown, and nothing was laid out or reported.
C15_Witness ==
    /\ Live /\ ~shown /\ Hidden(miniStyle)
    /\ lastOp.name = "set" /\ ~lastOp.threw /\ ~lastOp.wasShown
    /\ settings["heightRatio"] = Num(Whole(1))
    /\ miniStyle["transform"] # ScaleCss(scale(Cur).x, scale(Cur).y)
    /\ cbLog = <<>>

\* The edge offsets ('left', 'right') an element's style has set.
EdgesSet(style) == {k \in {"left", "right"} : style[k] # Unset}

\* C16 as stated: in every state each of the preview and the region has
\* exactly one of 'left' and 'right' set, the one the position setting names
\* (taken here from the first layout pass on, which leaves out the instance
\* that was never shown).
C16_ExactlyOneEdge ==
    (Live /\ miniStyle["transform"] # Unset) =>
        /\ EdgesSet(miniStyle) = {settings["position"].v}
        /\ EdgesSet(regionStyle) = {settings["position"].v}

\* C16 amended: neither element ever has the edge the position setting does
\* not name, and while shown is true each has the named one; while shown is
\* false (before the first show(), after a setPosition on a hidden minimap)
\* an element may have neither.
C16_NoResidualEdge ==
    Live => /\ EdgesSet(miniStyle) \subseteq {settings["position"].v}
            /\ EdgesSet(regionStyle) \subseteq {settings["position"].v}
            /\ shown => /\ EdgesSet(miniStyle) = {settings["position"].v}
                        /\ EdgesSet(regionStyle) = {settings["position"].v}

\* The position was changed to left on a shown minimap: 'left' is set and
\* 'right' is cleared on both elements.
C16_Witness ==
    /\ Live /\ shown
    /\ lastOp.name = "setPosition" /\ ~lastOp.threw /\ lastOp.wasShown
    /\ settings["position"] = Str("left")
    /\ EdgesSet(miniStyle) = {"left"} /\ EdgesSet(regionStyle) = {"left"}

----------------------------------------------------------------------------
(* Claims about validation.                                                *)

\* C17: the constructor and setPosition accept a position in any letter case
\* and store it lowercased: constructing with "LEFT" stores "left", and
\* setPosition("Right") does exactly what setPosition("right") does.
C17_PositionAnyCase ==
    /\ phase = "new" =>
          \A p \in DOMAIN MixedCase :
             LET m == construct([position |-> Str(p)], Cur)
             IN  ~m.err.thrown /\ m.settings["position"] = Str(toLowerCase(p))
    /\ Live =>
          \A p \in DOMAIN MixedCase :
             setPosition(Str(p), Cur) = setPosition(Str(toLowerCase(p)), Cur)

\* The documented range of each ratio field (spec: heightRatio in (0, 1],
\* widthRatio in (0, 0.5], both offset ratios in [0, 0.9]).
InRange(prop, r) ==
    CASE prop = "heightRatio" -> RLt(Zero, r) /\ RLe(r, One)
      [] prop = "widthRatio" -> RLt(Zero, r) /\ RLe(r, <<1, 2>>)
      [] OTHER -> RLe(Zero, r) /\ RLe(r, <<9, 10>>)

ReadmeRange(prop, r) ==
    CASE prop = "heightRatio" -> RLe(Zero, r) /\ RLt(r, One)
      [] prop = "widthRatio" -> RLe(Zero, r) /\ RLt(r, <<1, 2>>)
      [] OTHER -> RLt(Zero, r) /\ RLe(r, <<9, 10>>)

\* C19: the ratio options are accepted exactly in the README's ranges:
\* heightRatio 0.0 is accepted and 1.0 rejected, widthRatio 0.0 is accepted and
\* 0.5 rejected, the offset ratios 0.0 are rejected and 0.9 accepted.
C19_ReadmeRanges ==
    /\ phase = "new" =>
          \A prop \in redrawAttributes : \A value \in RatioProbes(prop) :
             construct((prop :> value), Cur).err.thrown <=> ~ReadmeRange(prop, value.v)
    /\ Live =>
          \A prop \in redrawAttributes : \A value \in SetterProbes(prop) :
             setProperty(prop, TRUE, value, Cur).err.thrown <=> ~ReadmeRange(prop, value.v)

\* The delays the validator is tried with: 3, 4.5, -5, 4, 500, 2^31 and
\* 2^32 + 4.
DelayProbes ==
    {Num(Whole(3)), Num(<<9, 2>>), Num(Whole(-5)), Num(Whole(4)), Num(Whole(500)),
     Big(32768, 0), Big(65536, 4)}

IntegerAtLeast4(x) == x.t = "big" \/ (x.t = "num" /\ RIsInt(x.v) /\ x.v[1] >= 4)

\* C20: smoothScrollDelay is accepted, by the constructor and by
\* setSmoothScrollDelay, exactly when it is an integer of at least 4.
C20_DelayIntegerAtLeast4 ==
    /\ phase = "new" =>
          \A value \in DelayProbes :
             construct([smoothScrollDelay |-> value], Cur).err.thrown
                <=> ~IntegerAtLeast4(value)
    /\ Live =>
          \A value \in DelayProbes :
             setProperty("smoothScrollDelay", FALSE, value, Cur).err.thrown
                <=> ~IntegerAtLeast4(value)

\* The error message names the field `key`: "Invalid <key>: ..." (the delay's
\* message reads "Invalid smoothScrollDelay(in ms): ...").
NamesField(err, key) ==
    err.label = key \/ (key = "smoothScrollDelay" /\ err.label = "smoothScrollDelay(in ms)")

\* The option records whose validation fails (position is a string in each).
FailingOptions == {o \in InvalidOptions : Merge(o)["position"].t = "str"}

\* The key of `options` the validators reject.
Offending(options) ==
    {k \in DOMAIN options :
        propValidators(k, LowerPosition(Merge(options))[k])}

\* C21: every validation failure, at construction or in a setter, an unknown
\* configuration key included, produces an error that names the offending
\* field and carries the rejected value.
C21_ErrorNamesFieldAndValue ==
    /\ phase = "new" =>
          \A options \in FailingOptions :
             LET err == construct(options, Cur).err
             IN  /\ err.thrown
                 /\ \E k \in Offending(options) :
                       NamesField(err, k) /\ err.value = options[k]
    /\ Live =>
          \A prop \in CheckedSetters : \A value \in RejectedValues(prop) :
             LET err == setProperty(prop, prop \in redrawAttributes, value, Cur).err
             IN  err.thrown /\ NamesField(err, prop) /\ err.value = value

\* The boolean fields, and values of another type for them and for the ratios.
BooleanFields == {"allowClick", "fadeHover", "disableFind", "touch", "smoothScroll"}
NonBooleans == {Str("yes"), Num(One)}
NonNumbers == {Str("0.5"), Str("abc")}

\* C22: a value of the wrong type is rejected for every field: a non-boolean
\* for a boolean field at construction and in setSmoothScroll, and a string
\* such as "0.5" for a ratio field at construction and in its setter.
C22_WrongTypeRejected ==
    /\ phase = "new" =>
          /\ \A f \in BooleanFields : \A v \in NonBooleans :
                construct((f :> v), Cur).err.thrown
          /\ \A f \in redrawAttributes : \A v \in NonNumbers :
                construct((f :> v), Cur).err.thrown
    /\ Live =>
          /\ \A v \in NonBooleans :
                setProperty("smoothScroll", FALSE, v, Cur).err.thrown
          /\ \A f \in redrawAttributes : \A v \in NonNumbers :
                setProperty(f, TRUE, v, Cur).err.thrown

-----------------------------------------------------------------------------
(* Scroll events at chosen offsets on a constructed, shown instance: the    *)
(* offsets include the two edges of the visibility rule for the current    *)
(* layout and the offsets one unit outside them.                           *)

SyncOptions == {NoOptions, [offsetHeightRatio |-> Num(Zero)]}

\* The terms of the scroll handler, read off the state the event finds.
SyncPos(m) == RMul(m.win.scrollY, scale(m).y)
SyncTop(m) == RMul(Whole(base.offsetTop), scale(m).y)
SyncBottom(m) == RAdd(RMul(Whole(base.outer), scale(m).y), SyncTop(m))
SyncOffsetTop(m) == RMul(Whole(m.win.h), ToNumber(m.settings["offsetHeightRatio"]))
SyncBand(m) == RAdd(RAdd(SyncPos(m), outerHeightOfRegion(m.region)), SyncOffsetTop(m))

\* The scroll offsets at which the band's lower end meets the source's top,
\* and at which the position meets the source's bottom.
TopEdge(m) ==
    RSub(Whole(base.offsetTop),
         RDiv(RAdd(outerHeightOfRegion(m.region), SyncOffsetTop(m)), scale(m).y))
BottomEdge(m) == Whole(base.offsetTop + base.outer)

SyncOffsets(m) ==
    {y \in {Zero, Whole(4000), TopEdge(m), RSub(TopEdge(m), One),
            BottomEdge(m), RAdd(BottomEdge(m), One)} :
        RLe(Zero, y) /\ RLe(y, Whole(MaxScrollY(m)))}

InitSync ==
    /\ base \in BaseGeometries
    /\ phase = "live"
    /\ \E options \in SyncOptions :
          Install(show(construct(options, BlankPage(InitialViewport))))
    /\ lastOp = [NoOp EXCEPT !.name = "show"]
    /\ cbLog = <<>>
    /\ scrollLog = <<>>

\* The page is scrolled to offset y and the scroll listener runs.
ScrollTo ==
    /\ phase = "live"
    /\ <<"window", "scroll", "onScrollHandler">> \in listeners
    /\ \E y \in SyncOffsets(Cur) :
          Commit(onScrollHandler([Cur EXCEPT !.win.scrollY = y]), "scroll")
    /\ UNCHANGED phase

NextSync ==
    \/ ScrollTo
    \/ Resize
    \/ Show
    \/ Hide

SpecSync == InitSync /\ [][NextSync]_vars

BandAbove(m) == RLt(SyncBand(m), SyncTop(m))
BandBelow(m) == RLt(SyncBottom(m), SyncPos(m))
OnTopEdge(m) == SyncBand(m) = SyncTop(m)
OnBottomEdge(m) == SyncPos(m) = SyncBottom(m)
AtOffset(y) == [Cur EXCEPT !.win.scrollY = y]

\* C23: after a scroll event on a shown minimap the region is hidden exactly
\* when pos + regionOuterHeight + offsetTop < top or pos > bottom, and is
\* displayed otherwise; at equality on either edge the region is displayed.
C23_ScrollVisibilityRule ==
    (phase = "live" /\ shown) =>
        \A y \in SyncOffsets(Cur) :
            LET after == onScrollHandler(AtOffset(y))
            IN  /\ Hidden(after.region) <=> (BandAbove(AtOffset(y)) \/ BandBelow(AtOffset(y)))
                /\ (OnTopEdge(AtOffset(y)) \/ OnBottomEdge(AtOffset(y)))
                      => after.region["display"] = Kw("block")

\* A scroll event has left the page on the bottom edge with the region
\* displayed, the top edge is an offset of the page as well, and one unit
\* outside either edge the region is hidden.
C23_Witness ==
    /\ lastOp.name = "scroll" /\ lastOp.wasShown
    /\ OnBottomEdge(Cur) /\ regionStyle["display"] = Kw("block")
    /\ \E y \in SyncOffsets(Cur) :
          OnTopEdge(AtOffset(y)) /\ ~Hidden(onScrollHandler(AtOffset(y)).region)
    /\ \E y \in SyncOffsets(Cur) :
          BandAbove(AtOffset(y)) /\ Hidden(onScrollHandler(AtOffset(y)).region)
    /\ \E y \in SyncOffsets(Cur) :
          BandBelow(AtOffset(y)) /\ Hidden(onScrollHandler(AtOffset(y)).region)

-----------------------------------------------------------------------------
(* Constructing another instance on a page that already carries one.  The  *)
(* constructor searches the clone, not the document, for earlier previews   *)
(* and regions (lines 162-163), so the body keeps what it had and gains the *)
(* new pair.                                                                *)

\* document.querySelectorAll for one of the two markers: how many elements of
\* the body carry it.
Occurrences(elements, name) ==
    Cardinality({i \in 1..Len(elements) : elements[i] = name})
OnePair(m) ==
    Occurrences(m.body, "miniElement") = 1 /\ Occurrences(m.body, "region") = 1

\* C24: after constructing any number of instances one after another the
\* document holds exactly one preview and exactly one region.
C24_OnePairAfterConstructions ==
    /\ phase = "live" => OnePair(Cur)
    /\ phase = "live" =>
          \A options \in ValidOptions :
              /\ ~construct(options, Cur).err.thrown
              /\ OnePair(construct(options, Cur))

-----------------------------------------------------------------------------
(* An instance constructed with allowClick false.                          *)

MouseTypes == {"mousedown", "mousemove", "mouseup", "click"}

\* The handler left the drag flag, the timers, the animation flag and the
\* page's scroll offset as the event found them, and called scrollTo never.
Untouched(r) ==
    /\ r.mousedown = mousedown
    /\ r.timers = timers
    /\ r.onSmoothScroll = onSmoothScroll
    /\ r.win = win
    /\ r.scrollLog = <<>>

\* C25: with allowClick false no mouse event and no touch event on the
\* preview, the region or the document changes the mousedown flag, starts an
\* animation or writes the page scroll offset, whatever came before it.
C25_InertWithoutAllowClick ==
    ~Truthy(settings["allowClick"]) =>
        /\ ~mousedown /\ ~onSmoothScroll /\ ActiveTimers(Cur) = {}
        /\ win.scrollY = Zero /\ scrollLog = <<>>
        /\ \A type \in MouseTypes, target \in EventTargets, y \in ClientYs :
              Untouched(dispatchEvent([type |-> type, clientY |-> y], target, Cur))
        /\ \A type \in TouchTypes, target \in EventTargets, y \in TouchClientYs,
              n \in TouchCounts :
              Untouched(touchHandler([type |-> type, n |-> n, target |-> target,
                                      clientY |-> y], Cur))

\* A tap on the preview of such an instance was turned into a click and
\* dispatched, and nothing heard it.
C25_Witness ==
    /\ ~Truthy(settings["allowClick"])
    /\ lastOp.name = "touchend"
    /\ dispLog = <<<<"click", "miniElement">>>>
    /\ scrollLog = <<>> /\ win.scrollY = Zero /\ ActiveTimers(Cur) = {}

-----------------------------------------------------------------------------
(* The parameters of an animated scroll.                                    *)

\* Delays the validator accepts and distances on both sides of r = 4 and
\* r = 1 for them, with distance 0 (r is Infinity) and a fractional distance.
StepDelays == {Whole(4), Whole(10), Whole(200)}
StepDistances ==
    {Zero, One, <<1, 3>>, Whole(2), <<5, 2>>, Whole(3), Whole(4), Whole(5),
     Whole(10), Whole(11), Whole(50), Whole(51), Whole(200), Whole(201), Whole(4500)}

\* The rule in terms of r = delay / distance.
StepRule(delay, distance) ==
    IF distance = Zero \/ RLe(Whole(4), RDiv(delay, distance))
    THEN [size |-> One, interval |-> 1]
    ELSE IF RLe(One, RDiv(delay, distance))
    THEN [size |-> Whole(RFloor(RDiv(delay, distance)) * 4), interval |-> 4]
    ELSE [size |-> RDiv(Whole(4), RDiv(delay, distance)), interval |-> 4]

FollowsRule(t, delay, distance) ==
    /\ t.unitScroll = StepRule(delay, distance).size
    /\ t.unitDelay = StepRule(delay, distance).interval

\* The timer a click at clientY y starts on the current state.
NewTimer(y) ==
    LET i == CHOOSE j \in FreeSlots(Cur) : \A k \in FreeSlots(Cur) : j <= k
    IN  scrollTop([type |-> "click", clientY |-> y], Cur).timers[i]

\* C26: with r = delay / distance an animated scroll steps by 1 every 1 ms
\* when r >= 4, by floor(r) x 4 every 4 ms when 1 <= r < 4 and by 4 / r every
\* 4 ms when r < 1, for every start offset, target and valid delay.
C26_StepParameters ==
    /\ \A delay \in StepDelays, distance \in StepDistances :
          FollowsRule(stepParams(delay, distance), delay, distance)
    /\ (phase = "live" /\ StartsTimer(Cur) /\ FreeSlots(Cur) # {}) =>
          \A y \in ClientYs :
              /\ NewTimer(y).active
              /\ FollowsRule(NewTimer(y), ToNumber(settings["smoothScrollDelay"]),
                             RAbs(RSub(win.scrollY, NewTimer(y).target)))

\* A click has just started a timer that follows the rule for the distance
\* the click found, and the sampled distances reach all three cases.
C26_Witness ==
    /\ lastOp.name = "click"
    /\ \E i \in ActiveTimers(Cur) :
          /\ timers[i].next = win.scrollY
          /\ timers[i].target # win.scrollY
          /\ FollowsRule(timers[i], ToNumber(settings["smoothScrollDelay"]),
                         RAbs(RSub(win.scrollY, timers[i].target)))
    /\ \E delay \in StepDelays, distance \in StepDistances :
          distance # Zero /\ RDiv(delay, distance) = Whole(4)
    /\ \E delay \in StepDelays, distance \in StepDistances :
          distance # Zero /\ RDiv(delay, distance) = One
    /\ \E delay \in StepDelays, distance \in StepDistances :
          distance # Zero /\ RLt(RDiv(delay, distance), One)

-----------------------------------------------------------------------------
(* How often the callback of one animated scroll runs.                      *)

\* The calls of timer i's callback from state m until the timer is cleared.
RECURSIVE Runs(_, _)
Runs(i, m) == IF ~m.timers[i].active THEN 0 ELSE 1 + Runs(i, smoothScroll(i, m))

\* Distances from the target at which a click finds the page: none, below
\* one unit, a few units, and long ones.
CountDistances == {Zero, <<1, 2>>, Whole(2), Whole(3), Whole(60), Whole(1000)}

FirstFree == CHOOSE j \in FreeSlots(Cur) : \A k \in FreeSlots(Cur) : j <= k

\* Offsets of the page at those distances on either side of the target of a
\* click at clientY y, and the offset the page has.
Starts(y) ==
    {s \in {win.scrollY} \cup {RSub(NewTimer(y).target, d) : d \in CountDistances}
                         \cup {RAdd(NewTimer(y).target, d) : d \in CountDistances} :
        RLe(Zero, s) /\ RLe(s, Whole(MaxScrollY(Cur)))}

\* The click at clientY y arriving with the page at offset s.
Animated(y, s) ==
    scrollTop([type |-> "click", clientY |-> y], [Cur EXCEPT !.win.scrollY = s])

\* distance / unitScroll of that animated scroll
Quotient(y, s) ==
    RDiv(RAbs(RSub(s, Animated(y, s).timers[FirstFree].target)),
         Animated(y, s).timers[FirstFree].unitScroll)

CanAnimate == phase = "live" /\ StartsTimer(Cur) /\ FreeSlots(Cur) # {}

\* C27 as stated: the callback runs exactly floor(distance / stepSize) times
\* before the timer is cleared, for every distance and delay, distances
\* smaller than the step size and distance 0 included.
C27_RunsFloorTimes ==
    CanAnimate =>
        \A y \in AnimClientYs : \A s \in Starts(y) :
            Runs(FirstFree, Animated(y, s)) = RFloor(Quotient(y, s))

AtLeastOnce(n) == IF n < 1 THEN 1 ELSE n

\* C27, amended: the callback runs exactly parseInt(distance / stepSize)
\* times before the timer is cleared, and exactly once when that count is 0.
C27_RunsCountTimesAtLeastOnce ==
    CanAnimate =>
        \A y \in AnimClientYs : \A s \in Starts(y) :
            Runs(FirstFree, Animated(y, s)) = AtLeastOnce(parseInt(Quotient(y, s)))

\* A click that found the page on its target has started a timer with count
\* 0, whose callback is still to run, once.
C27_Witness ==
    /\ lastOp.name = "click"
    /\ \E i \in ActiveTimers(Cur) :
          /\ timers[i].target = win.scrollY
          /\ timers[i].count = 0
          /\ Runs(i, Cur) = 1

-----------------------------------------------------------------------------
(* The offsets one animated scroll writes.                                  *)

\* The arguments of window.scrollTo in the calls of timer i's callback from
\* state m until the timer is cleared, in order.
RECURSIVE Writes(_, _)
Writes(i, m) ==
    IF ~m.timers[i].active THEN <<>>
    ELSE smoothScroll(i, [m EXCEPT !.scrollLog = <<>>]).scrollLog
            \o Writes(i, smoothScroll(i, m))

\* w is a run from start towards target that never leaves the interval
\* between the two and never turns back.
TowardTarget(w, start, target) ==
    IF RLt(start, target)
    THEN /\ \A k \in 1..Len(w) : RLe(start, w[k]) /\ RLe(w[k], target)
         /\ \A k \in 1..(Len(w) - 1) : RLe(w[k], w[k + 1])
    ELSE /\ \A k \in 1..Len(w) : RLe(target, w[k]) /\ RLe(w[k], start)
         /\ \A k \in 1..(Len(w) - 1) : RLe(w[k + 1], w[k])

-----------------------------------------------------------------------------
(* A second click while the timer of the first is still running.            *)

\* Timer i's callback runs until the timer is cleared.
RECURSIVE RunOut(_, _)
RunOut(i, m) == IF ~m.timers[i].active THEN m ELSE RunOut(i, smoothScroll(i, m))

\* The time in ms from its start to the last call of a timer's callback.
Duration(t) == AtLeastOnce(t.count) * t.unitDelay

\* Timer `late`, started now, is cleared before timer `early`, which has been
\* running for less than one of its intervals since its last call.
ClearedBefore(late, early) ==
    Duration(late) < (AtLeastOnce(early.count) - 1) * early.unitDelay

\* The offset the page takes when asked for y.
OnPage(y) == RMax(Zero, RMin(y, Whole(MaxScrollY(Cur))))

\* Both timers run out after the second click at clientY y, in the order
\* their intervals and counts fix when they fix one, the first click's timer
\* first otherwise.
BothCleared(first, y) ==
    LET m == scrollTop([type |-> "click", clientY |-> y], Cur)
    IN  IF ClearedBefore(m.timers[FirstFree], m.timers[first])
        THEN RunOut(first, RunOut(FirstFree, m))
        ELSE RunOut(FirstFree, RunOut(first, m))

\* C29: when two clicks start overlapping animated scrolls, the page's scroll
\* offset after both timers have been cleared is the target of the most
\* recent click.
C29_LastClickWins ==
    CanAnimate =>
        \A first \in ActiveTimers(Cur) : \A y \in AnimClientYs :
            BothCleared(first, y).win.scrollY = OnPage(NewTimer(y).target)

-----------------------------------------------------------------------------
(* What a mousemove does, and which events start a timer.                   *)

MouseMoveAt(target, y) ==
    dispatchEvent([type |-> "mousemove", clientY |-> y], target, Cur)

\* C30: a mousemove writes the page's scroll offset exactly when the
\* mousedown flag is true, onSmoothScroll is false and the minimap is shown;
\* the write is immediate, with no timer started, also when smoothScroll is
\* enabled; and no event other than a click starts an animated scroll.
C30_MouseMoveWritesWhileDragging ==
    /\ phase = "live" =>
          \A target \in EventTargets, y \in ClientYs :
              Rendered(target) =>
                 /\ (MouseMoveAt(target, y).scrollLog # <<>>)
                        <=> (mousedown /\ ~onSmoothScroll /\ shown)
                 /\ Len(MouseMoveAt(target, y).scrollLog) <= 1
                 /\ MouseMoveAt(target, y).timers = timers
                 /\ MouseMoveAt(target, y).onSmoothScroll = onSmoothScroll
    /\ phase = "live" =>
          \A type \in MouseTypes \ {"click"}, target \in EventTargets, y \in ClientYs :
              dispatchEvent([type |-> type, clientY |-> y], target, Cur).timers = timers
    /\ phase = "live" =>
          \A type \in TouchTypes, target \in EventTargets, y \in ClientYs, n \in TouchCounts :
              LET r == touchHandler([type |-> type, n |-> n, target |-> target,
                                     clientY |-> y], Cur)
              IN  r.timers # timers =>
                     \E d \in 1..Len(r.dispLog) : r.dispLog[d][1] = "click"
    /\ lastOp.name = "mousemove" =>
          /\ scrollLog # <<>> <=> (mousedown /\ ~onSmoothScroll /\ shown)
          /\ Len(scrollLog) <= 1

\* A mousemove during a drag has just written the offset at once, on an
\* instance with smoothScroll enabled, and no timer runs.
C30_Witness ==
    /\ lastOp.name = "mousemove"
    /\ Len(scrollLog) = 1
    /\ Truthy(settings["smoothScroll"])
    /\ mousedown /\ ~onSmoothScroll /\ shown
    /\ ActiveTimers(Cur) = {}

-----------------------------------------------------------------------------
(* A tap: touchstart immediately followed by touchend on the same element.  *)

TouchAt(type, target, y) == [type |-> type, n |-> 1, target |-> target, clientY |-> y]

\* The state a tap at clientY y on target leaves the current state in.
Tap(target, y) ==
    touchHandler(TouchAt("touchend", target, y),
                 touchHandler(TouchAt("touchstart", target, y), Cur))

CanTap(target) ==
    /\ Live
    /\ Truthy(settings["touch"]) /\ Truthy(settings["allowClick"])
    /\ Listens("document", "touchstart") /\ Listens("document", "touchend")
    /\ Rendered(target)
    /\ StartsTimer(Cur) => FreeSlots(Cur) # {}

\* C31: after a tap on the preview or the region, with touch and allowClick
\* enabled, the instance is idle again: the mousedown flag is false, the
\* region has no 'dragging' class and the source element no 'noselect' class.
C31_TapReturnsToIdle ==
    \A target \in {"region", "miniElement"} :
        CanTap(target) =>
            \A y \in TouchClientYs :
                /\ ~Tap(target, y).mousedown
                /\ "dragging" \notin Tap(target, y).regionClass
                /\ "noselect" \notin Tap(target, y).baseClass

\* The synthetic events the handler dispatches for a touchend on target.
TouchEndAt(target, y) == touchHandler(TouchAt("touchend", target, y), Cur).dispLog

\* C32: a touchend is dispatched as click only when no other touch event was
\* delivered between it and the preceding touchstart; after a touchcancel or
\* a multi-touch event in between it is dispatched as mouseup; multi-touch
\* events themselves dispatch nothing.
C32_TapOnlyWithoutInterveningTouch ==
    (Live /\ Listens("document", "touchend")) =>
        /\ \A target \in EventTargets, y \in TouchClientYs :
              (Rendered(target) /\ (StartsTimer(Cur) => FreeSlots(Cur) # {})) =>
                 /\ prevTouch \in {"touchcancel", "multi"} =>
                        TouchEndAt(target, y) = <<<<"mouseup", target>>>>
                 /\ TouchEndAt(target, y) = <<<<"click", target>>>> =>
                        prevTouch = "touchstart"
        /\ \A type \in TouchTypes, target \in EventTargets, y \in TouchClientYs :
              touchHandler([type |-> type, n |-> 2, target |-> target, clientY |-> y],
                           Cur).dispLog = <<>>

-----------------------------------------------------------------------------
(* What the two passes leave alone.                                         *)

\* C33: neither the scroll mirroring pass nor the layout pass writes the
\* page's scroll offset; the scroll mirroring pass changes the region's top
\* and display and nothing else, never invokes onPreviewChange, and changes
\* nothing at all while the minimap is not shown.
C33_PassesFrame ==
    /\ Live =>
          \A y \in SyncOffsets(Cur) :
              LET after == onScrollHandler(AtOffset(y))
              IN  /\ [after EXCEPT !.region = regionStyle] = AtOffset(y)
                  /\ \A k \in StyleKeys \ {"top", "display"} :
                        after.region[k] = regionStyle[k]
                  /\ ~shown => after = AtOffset(y)
    /\ Live =>
          \A w \in Viewports :
              /\ onResizeHandler(Resized(w, Cur)).scrollLog = <<>>
              /\ onResizeHandler(Resized(w, Cur)).win = Resized(w, Cur).win
    /\ lastOp.name \in {"scroll", "resize"} => scrollLog = <<>>
    /\ lastOp.name = "scroll" => cbLog = <<>>

\* A scroll event on a shown minimap, away from offset 0, has just hidden the
\* region: the preview is still displayed, scrollTo was not called and
\* onPreviewChange was not invoked.
C33_Witness ==
    /\ lastOp.name = "scroll" /\ lastOp.wasShown
    /\ Hidden(regionStyle) /\ ~Hidden(miniStyle)
    /\ scrollLog = <<>> /\ cbLog = <<>>
    /\ win.scrollY # Zero

\* C34: for the same scroll offset, viewport, source geometry and
\* configuration the layout pass and the scroll mirroring pass assign the
\* same top to the region, also when the source's top offset is not zero: a
\* scroll event right after a layout pass does not move the region.
C34_PassesAgreeOnTop ==
    (Live /\ shown) =>
        onScrollHandler(onResizeHandler(Cur)).region["top"]
            = onResizeHandler(Cur).region["top"]

-----------------------------------------------------------------------------
(* The shown flag and the preview's display.                                *)

\* C35: in every state from construction on, the shown flag is true exactly
\* when the preview element is not hidden (its display is not 'none').
C35_ShownIffPreviewDisplayed ==
    Live => (shown <=> ~Hidden(miniStyle))

----------------------------------------------------------------------------
(* Instances constructed one after another on pages with different markup,  *)
(* from the document body (as test/main does) or from the page's first      *)
(* element, with disableFind on or off.                                     *)

MaxInstances == 2

Markups ==
    {<<>>, <<"a">>, <<" ">>, <<"a", "b">>, <<"a", " ", "b">>,
     <<"<", "b", ">", "a", "<", "/", "b", ">">>}
Sources == {"body", "section"}
DomOptions == {[disableFind |-> Bool(TRUE)], [disableFind |-> Bool(FALSE)]}

Previews(d) == {i \in 1..Len(d) : "minimap" \in d[i].cls}

InitDom ==
    /\ base \in BaseGeometries
    /\ phase = "new"
    /\ InstallInstance(BlankPage(InitialViewport))
    /\ dom \in {Page(html) : html \in Markups}
    /\ lastOp = NoOp
    /\ cbLog = <<>>
    /\ scrollLog = <<>>

ConstructOn ==
    /\ Cardinality(Previews(dom)) < MaxInstances
    /\ \E source \in Sources, options \in DomOptions :
          LET m == construct(options, Cur)
          IN  /\ phase' = "live"
              /\ CommitInstance(m, "constructor")
              /\ dom' = constructDocument(source,
                            m.settings["disableFind"] = Bool(TRUE), dom)

NextDom == ConstructOn
SpecDom == InitDom /\ [][NextDom]_vars

RECURSIVE HasInside(_, _)
HasInside(el, marker) ==
    \E i \in 1..Len(el.kids) :
        marker \in el.kids[i].cls \/ HasInside(el.kids[i], marker)

\* C36: no preview element of the document has a descendant carrying the
\* 'minimap' marker or one carrying the 'miniregion' marker, whatever the
\* source of its clone held, an earlier instance's preview and region
\* included.
C36_CloneHasNoArtifact ==
    \A i \in Previews(dom) :
        ~HasInside(dom[i], "minimap") /\ ~HasInside(dom[i], "miniregion")

----------------------------------------------------------------------------
(* The markup the page's first element was given stays in the document: no  *)
(* construction marks the source itself.                                    *)

SourceMarkup == dom[1].kids[1].html

\* html[i] is a character of a tag '<...>', its '<' and '>' included.
InTag(html, i) ==
    \/ html[i] \in {"<", ">"}
    \/ LET marks == {j \in 1..i : html[j] \in {"<", ">"}}
       IN  marks # {} /\ html[CHOOSE j \in marks : \A k \in marks : k <= j] = "<"

RECURSIVE Flatten(_, _, _)
Flatten(pieces, lo, hi) ==
    IF lo > hi THEN <<>>
    ELSE IF lo = hi THEN pieces[lo]
    ELSE LET mid == (lo + hi) \div 2
         IN  Flatten(pieces, lo, mid) \o Flatten(pieces, mid + 1, hi)

\* One decoy after every character outside a tag that is not a space, and
\* nothing else added.
DecoratedMarkup(html) ==
    Flatten([i \in 1..Len(html) |->
                IF ~InTag(html, i) /\ html[i] # " "
                THEN <<html[i]>> \o Decoy ELSE <<html[i]>>],
            1, Len(html))

\* The markup without its decoys.
StripDecoys(html) ==
    LET starts == {p \in 1..(Len(html) - Len(Decoy) + 1) :
                      SubSeq(html, p, p + Len(Decoy) - 1) = Decoy}
        kept == {i \in 1..Len(html) :
                    \A p \in starts : i < p \/ i >= p + Len(Decoy)}
    IN  [n \in 1..Cardinality(kept) |->
            html[CHOOSE i \in kept : Cardinality({j \in kept : j <= i}) = n]]

\* C37: the transform puts exactly one decoy after every character of the
\* markup that is outside a tag and is not a space, none after a space or a
\* character of a tag (the closing '>' included), and taking the decoys out
\* of its result gives the original markup back.
C37_DecoysAfterTextOnly ==
    /\ disableFindHtml(SourceMarkup) = DecoratedMarkup(SourceMarkup)
    /\ StripDecoys(disableFindHtml(SourceMarkup)) = SourceMarkup

RECURSIVE RewriteCounts(_)
RewriteCounts(el) ==
    {el.rewrites} \cup UNION {RewriteCounts(el.kids[i]) : i \in 1..Len(el.kids)}

\* The new preview as the constructor leaves it when nothing is rewritten.
PlainClone(source, d) ==
    [removeMiniregion(removeNoselectInMinimap(baseElement(source, d), FALSE))
        EXCEPT !.cls = @ \cup {"minimap", "noselect"}]

\* C38: no element's markup is rewritten more than once, and only below the
\* preview of an instance constructed with disableFind true: the elements
\* outside the previews and the previews themselves are never rewritten, a
\* construction with disableFind false appends its region and its clone and
\* rewrites nothing, and a further construction leaves every element the
\* document held before it as it was.
C38_RewrittenOnceAtConstruction ==
    /\ \A i \in 1..Len(dom) :
          /\ \A n \in RewriteCounts(dom[i]) : n <= 1
          /\ i \notin Previews(dom) => RewriteCounts(dom[i]) = {0}
          /\ dom[i].rewrites = 0
    /\ \A source \in Sources :
          constructDocument(source, FALSE, dom)
              = dom \o <<Element({"miniregion"}, <<>>, <<>>), PlainClone(source, dom)>>
    /\ \A source \in Sources, disableFindOn \in BOOLEAN :
          SubSeq(constructDocument(source, disableFindOn, dom), 1, Len(dom)) = dom

----------------------------------------------------------------------------
(* Delays of 2^31 and more: 2^31 and 2^32 + 4, next to 500 and 2^31 - 1.   *)

LargeDelays == {Big(32768, 0), Big(65536, 4)}
AcceptedDelays == {Num(Whole(500)), Num(Whole(2147483647))} \cup LargeDelays

\* C39: an integral smoothScrollDelay of at least 4 is accepted whatever its
\* magnitude: the constructor and setSmoothScrollDelay take 2^31 and 2^32 + 4
\* as they take 500, and the setter stores the value.
C39_LargeDelaysAccepted ==
    /\ phase = "new" =>
          \A value \in AcceptedDelays :
              ~construct([smoothScrollDelay |-> value], Cur).err.thrown
    /\ Live =>
          \A value \in AcceptedDelays :
              LET m == setProperty("smoothScrollDelay", FALSE, value, Cur)
              IN  ~m.err.thrown /\ m.settings["smoothScrollDelay"] = value

====
